---- MODULE Spec2Model ----
(***************************************************************************)
(* Verification model of the transaction plumbing of benthos:              *)
(*   - the Nanomsg output (lib/output/nanomsg.go): Consume, loop,          *)
(*     CloseAsync and its deferred cleanup;                                *)
(*   - the Combine processor (processor/combine, second half of the same   *)
(*     source file): ProcessMessage;                                       *)
(*   - a pipeline hosting Combine, as far as the wrap tests pin it down;   *)
(*   - the BoundsCheck processor (lib/processor/bounds_check.go);          *)
(*   - an input wrapped with pipelines of the tests' mockProc processors.  *)
(* Message parts are opaque to all of this code (they are only appended,   *)
(* counted and handed on), so a part is modelled by the tag <<m, i>>: the  *)
(* i-th part of the m-th message.  Tags are pairwise distinct, which makes *)
(* loss, duplication and reordering of parts visible.                      *)
(* BoundsCheck reads the sizes of the parts and nothing else, so there a    *)
(* message is the sequence of its parts' sizes.                            *)
(***************************************************************************)
EXTENDS Integers, Sequences, FiniteSets, TLC

\* ------------------------------------------------------------------ bounds
\* Transactions the upstream of the Nanomsg output offers.
MaxTx == 2
\* Largest number of parts of a payload handed to the Nanomsg output.
MaxPayload == 2
\* Transactions the source offers to an output that is being shut down.
MaxShutTx == 1
\* Largest number of parts of the payload of such a transaction.
MaxShutPayload == 1
\* Largest `parts` setting of a Combine processor.
MaxN == 4
\* Largest number of parts of a message handed to Combine.
MaxLen == 4
\* Number of ProcessMessage calls on one Combine processor.
MaxCalls == 4
\* Upstream transactions fed to the pipeline that hosts Combine.
MaxPipeTx == 3
\* Largest number of parts of a message fed to that pipeline.
MaxPipeLen == 2
\* Error responses the downstream of the pipeline gives.
MaxDownErrs == 1
\* Number of ProcessMessage calls on one BoundsCheck processor.
MaxBoundsCalls == 3
\* Largest part count in a BoundsCheck configuration; messages have up to
\* one part more.
MaxBoundsParts == 1
\* Largest part size, in a BoundsCheck configuration and in a message.
MaxBoundsSize == 1
\* Largest number of pipelines an input is wrapped with.
MaxPipes == 2
\* Transactions the source behind the wrapped input sends.
MaxWrapTx == 2
\* Error responses the reader of the composite input gives.
MaxWrapErrs == 1
\* Largest number of pipeline constructors given to WrapWithPipelines.
MaxCtors == 3
\* Messages the shell around the reader preserver delivers, re-deliveries
\* included.
MaxDeliveries == 6
\* Longest text given to the interpolator, in atoms, when every text of that
\* length is given.
MaxTextLen == 6
\* Longest text that follows "${!echo:" in the texts that start that way.
MaxArgTail == 3
\* Number of ReplaceFunctionVariables calls that expand counters.
MaxCountCalls == 3
\* Largest number of pieces (references and literals) of a text with counters.
MaxPieces == 2
\* NewCombineConfig: Parts: 2
DefaultParts == 2

\* ----------------------------------------------------------------- values
\* Go's nil (a nil error, a nil Response, a nil channel).
nil == "nil"
\* The zero value of `var ts types.Transaction`.
NoTx == [id |-> 0, Payload |-> <<>>]
\* Errors the socket's Send can return.
SendErrs == {"errSendA", "errSendB"}

\* A nil types.Response.
NoRes == [none |-> TRUE]

\* response.NewError(err): Error(err), which is the Ack when err is nil.
NewError(e) == [err |-> e, skipAck |-> FALSE]
\* response.NewAck()
NewAck == [err |-> nil, skipAck |-> FALSE]
\* response.NewUnack(): the SkipAck response.
NewUnack == [err |-> nil, skipAck |-> TRUE]

\* The parts of the m-th message when it has k parts: <<m,1>> .. <<m,k>>.
PartsOf(m, k) == [i \in 1..k |-> <<m, i>>]

VARIABLES
    \* ---- Nanomsg struct
    running,        \* int32, 1 after NewNanomsg
    transactions,   \* nil, or "upstream" once Consume stored the channel
    closeChan,      \* number of close(s.closeChan) executed (closed iff > 0)
    closedChan,     \* number of close(s.closedChan) executed
    socketClosed,   \* s.socket.Close() has run
    \* ---- the loop goroutine
    pc,             \* "none" | "check" | "recv" | "send" | "tally" | "respond"
                    \* | "defer" | "defer2" | "done"
    ts,             \* loop local: the transaction in hand
    idx,            \* loop local: index of the next part to Send
    err,            \* loop local: err
    closing,        \* a CloseAsync call won the CAS and has not yet closed closeChan
    consumeRet,     \* what the last Consume call returned ("none" before any)
    waitRet,        \* what the last WaitForClose call returned ("none" before any)
    recvAtClose,    \* transactions the loop had received when running was set
                    \* to 0 (-1 while running is 1)
    \* ---- counters
    mRunning, mCount, mSendErr, mSendSucc,
    \* ---- upstream of the output (the source)
    upOpen,         \* the upstream channel has not been closed
    offer,          \* the transaction the source is blocked sending, or NoTx
    nextId,         \* id of the next transaction the source creates
    \* ---- what happened so far
    received,       \* the transactions the loop received, in order
    sock,           \* every socket Send: [tx, part, res], res "ok" or an error
    responses       \* responses[t]: what was sent on transaction t's ResponseChan

nanoVars == <<running, transactions, closeChan, closedChan, socketClosed, pc, ts,
              idx, err, closing, consumeRet, waitRet, recvAtClose, mRunning, mCount,
              mSendErr, mSendSucc, upOpen, offer, nextId, received, sock,
              responses>>


VARIABLES
    \* ---- Combine struct
    n,              \* c.n, conf.Combine.Parts
    parts,          \* c.parts, the buffer (nil is the empty sequence)
    cmCount, cmWarnParts, cmSent, cmSentParts, cmDropped,
    \* ---- what the last ProcessMessage call returned
    retMsgs,        \* the []types.Message (nil is the empty sequence)
    retRes,         \* the types.Response, or nil
    \* ---- what happened so far
    inputs,         \* the messages given to ProcessMessage, in order
    emitted         \* the messages ProcessMessage returned, in order

combVars == <<n, parts, cmCount, cmWarnParts, cmSent, cmSentParts, cmDropped,
              retMsgs, retRes, inputs, emitted>>

VARIABLES
    \* ---- a pipeline hosting one Combine processor
    pPc,            \* "recv" | "respond" | "emit" | "await"
    pTran,          \* the upstream transaction in hand
    \* ---- what happened so far
    down,           \* the messages sent downstream, in order (re-sends included)
    downRes,        \* downRes[j]: the downstream's response to down[j]
    pReplies        \* pReplies[t]: what upstream transaction t's reply sink received

pipeVars == <<pPc, pTran, down, downRes, pReplies>>

VARIABLES
    \* ---- BoundsCheck struct
    bConf,          \* conf.BoundsCheck: MaxParts, MinParts, MaxPartSize, MinPartSize
    bCount, bDropped, bDroppedEmpty, bDroppedNumParts, bDroppedPartSize,
    bSent, bSentParts,
    \* ---- what the last ProcessMessage call was given and returned
    bMsg,           \* the message: the sequence of the sizes of its parts
    bRetMsgs,       \* the []types.Message (nil is the empty sequence)
    bRetRes         \* the types.Response, or nil

boundsVars == <<bConf, bCount, bDropped, bDroppedEmpty, bDroppedNumParts,
                bDroppedPartSize, bSent, bSentParts, bMsg, bRetMsgs, bRetRes>>

VARIABLES
    \* ---- an input wrapped with pipelines of mockProc processors
    wN,             \* the number of pipelines
    wProcs,         \* wProcs[i]: the values of the mockProcs of pipeline i
    wPc,            \* wPc[i]: "recv" | "respond" | "emit" | "await" | "closed"
    wTran,          \* wTran[i]: the transaction pipeline i has in hand
    wRes,           \* wRes[i]: the Response pipeline i is about to send upstream
    wRan,           \* wRan[i]: processors pipeline i ran for wTran[i]
    \* ---- shutdown
    wClosing,       \* a CloseAsync call on the composite is under way
    wCloseCalls,    \* the components CloseAsync was called on, in order
                    \* (0: the wrapped input, i: pipeline i)
    wWaitRet,       \* what the last WaitForClose on the composite returned
    \* ---- what happened so far
    wSent,          \* wSent[t]: the first part of the message of transaction t
    wReplies,       \* wReplies[t]: what t's reply sink received
    wDown,          \* the transactions the reader of the composite received
    wDownRes        \* wDownRes[j]: the reader's response to wDown[j]

wrapVars == <<wN, wProcs, wPc, wTran, wRes, wRan, wClosing, wCloseCalls,
              wWaitRet, wSent, wReplies, wDown, wDownRes>>

VARIABLES
    \* ---- a processor built from a processor configuration
    procType        \* conf.Type: "combine" | "bounds_check" ("none": no processor)

VARIABLES
    \* ---- one call of WrapWithPipelines(mockIn, ctors...)
    kCtors,         \* kCtors[i]: what the i-th constructor returns, "ok" for a
                    \* pipeline and a nil error, or else its error
    kPc,            \* "ctor" | "consume" | "close" | "done"
    kInvoked,       \* the constructors invoked, in order
    kPipes,         \* the pipelines constructed, in order
    kConsume,       \* the Consume calls: [pipe, ts], ts the channel handed over
                    \* (0: mockIn.ts, i: the ts of pipeline i)
    kInCalls,       \* the methods called on mockIn, in order
    kClosed,        \* the pipelines CloseAsync was called on, in order
    kErr,           \* the error of the constructor that failed, or nil
    kRet            \* what the call returned: [input, err], or NoCtorRet

ctorVars == <<kCtors, kPc, kInvoked, kPipes, kConsume, kInCalls, kClosed, kErr,
              kRet>>

VARIABLES
    \* ---- reader.NewPreserver(r) inside the shell NewReader builds
    rdReads,        \* Read calls on the underlying Reader r; the k-th yields
                    \* message k
    rdAcks,         \* the messages acknowledged to r, in order
    prDeferred,     \* the messages the preserver holds for re-delivery
    prPc,           \* the shell: "read" | "respond"
    prMsg,          \* the message the shell delivered and awaits a Response for
    prOut,          \* the deliveries: [msg, fromReader], in order
    prRes           \* prRes[j]: the Response to delivery j, "ack" or "err"

presVars == <<rdReads, rdAcks, prDeferred, prPc, prMsg, prOut, prRes>>

VARIABLES
    \* ---- the text interpolator
    tCounters,      \* the counters of the count function: <<key, count>> pairs
    tIn,            \* the text of the last call (before the first: the text to
                    \* be given)
    tCalls,         \* number of calls so far
    tContains,      \* what ContainsFunctionVariables(tIn) returned
    tOut,           \* what ReplaceFunctionVariables(msg, tIn) returned
    tExp            \* the expansions of count so far: [key, out], in order

textVars == <<tCounters, tIn, tCalls, tContains, tOut, tExp>>

VARIABLES
    \* ---- the benthos configuration (Config) and its sanitisation
    cConf,          \* the Config c
    cCalls,         \* number of Sanitised calls so far
    cRet,           \* what c.Sanitised() returned: [res, err]
    cRet2           \* what Sanitised returned for the configuration read back
                    \* from cRet.res

confVars == <<cConf, cCalls, cRet, cRet2>>

\* The variables of the components that follow the wrapped input.
extraVars == <<procType, ctorVars, presVars, textVars, confVars>>

vars == <<nanoVars, combVars, pipeVars, boundsVars, wrapVars, extraVars>>

\* No processor was built from a processor configuration.
ProcIdle == procType = "none"

\* WrapWithPipelines has not returned yet.
NoCtorRet == [input |-> [obj |-> "none", ts |-> 0, pipes |-> <<>>], err |-> "none"]

\* WrapWithPipelines is not being called.
CtorIdle ==
    /\ kCtors = <<>>
    /\ kPc = "done"
    /\ kInvoked = <<>>
    /\ kPipes = <<>>
    /\ kConsume = <<>>
    /\ kInCalls = <<>>
    /\ kClosed = <<>>
    /\ kErr = nil
    /\ kRet = NoCtorRet

\* NewPreserver: nothing read, nothing deferred.
PresInit ==
    /\ rdReads = 0
    /\ rdAcks = <<>>
    /\ prDeferred = <<>>
    /\ prPc = "read"
    /\ prMsg = 0
    /\ prOut = <<>>
    /\ prRes = <<>>

\* The interpolator before any call: no counter exists.
TextFields ==
    /\ tCounters = {}
    /\ tCalls = 0
    /\ tContains = FALSE
    /\ tOut = <<>>
    /\ tExp = <<>>

\* The interpolator before any call, to be given the empty text.
TextIdle == tIn = <<>> /\ TextFields

\* The type names of the inputs and outputs.
ConfTypes == {"amazon_sqs", "nanomsg"}

\* The values a per-type subrecord can have.
SectionValues == {"default", "custom"}

\* The type names of the processors.
ProcTypes == {"combine", "bounds_check"}

\* A set of per-type subrecords, as <<type name, value>> pairs, one for each of
\* the type names.
Sections(types, values) ==
    {{<<t, f[t]>> : t \in types} : f \in [types -> values]}

\* The processor configurations: defaults but for the type.
ProcConfigs ==
    [type : ProcTypes, sections : Sections(ProcTypes, {"default"})]

\* input.Config and output.Config: type, processors and per-type subrecords.
SectionConfigs ==
    [type : ConfTypes,
     processors : {<<>>} \cup {<<p>> : p \in ProcConfigs},
     sections : Sections(ConfTypes, SectionValues)]

\* api.Config
HTTPConfigs == {"http_default", "http_custom"}

\* The benthos configurations.
Configs == [http : HTTPConfigs, input : SectionConfigs, output : SectionConfigs]

\* A nil interface{} result.
NilResult == [isNil |-> TRUE]

\* No Sanitised call has returned.
NoConfRet == [res |-> NilResult, err |-> "none"]

\* input.NewConfig(), output.NewConfig(): every subrecord at its default.
NewSectionConfig(type) ==
    [type |-> type,
     processors |-> <<>>,
     sections |-> {<<t, "default">> : t \in ConfTypes}]

\* NewConfig()
NewConfig ==
    [http |-> "http_default",
     input |-> NewSectionConfig("amazon_sqs"),
     output |-> NewSectionConfig("nanomsg")]

\* Sanitised has not been called.
ConfFields ==
    /\ cCalls = 0
    /\ cRet = NoConfRet
    /\ cRet2 = NoConfRet

\* The default configuration, not sanitised.
ConfIdle == cConf = NewConfig /\ ConfFields

\* None of those components is in use.
ExtraIdle ==
    /\ ProcIdle
    /\ CtorIdle
    /\ PresInit
    /\ TextIdle
    /\ ConfIdle

\* NewNanomsg: running 1, both channels open, no upstream channel yet.
NanoInit ==
    /\ running = 1
    /\ transactions = nil
    /\ closeChan = 0
    /\ closedChan = 0
    /\ socketClosed = FALSE
    /\ pc = "none"
    /\ ts = NoTx
    /\ idx = 0
    /\ err = nil
    /\ closing = FALSE
    /\ consumeRet = "none"
    /\ waitRet = "none"
    /\ recvAtClose = -1
    /\ mRunning = 0
    /\ mCount = 0
    /\ mSendErr = 0
    /\ mSendSucc = 0
    /\ upOpen = TRUE
    /\ offer = NoTx
    /\ nextId = 1
    /\ received = <<>>
    /\ sock = <<>>
    /\ responses = [t \in 1..MaxTx |-> <<>>]

\* ------------------------------------------------------- the source side
\* The source creates a transaction and blocks sending it on the upstream
\* channel (unbuffered: the send completes when the loop receives).
Offer(maxTx, maxPayload) ==
    /\ upOpen
    /\ offer = NoTx
    /\ nextId <= maxTx
    /\ \E k \in 0..maxPayload :
          offer' = [id |-> nextId, Payload |-> PartsOf(nextId, k)]
    /\ nextId' = nextId + 1
    /\ UNCHANGED <<running, transactions, closeChan, closedChan, socketClosed, pc,
                   ts, idx, err, closing, consumeRet, mRunning, mCount, mSendErr,
                   mSendSucc, upOpen, received, sock, responses>>
    /\ UNCHANGED <<waitRet, recvAtClose, combVars, pipeVars, boundsVars, wrapVars,
                   extraVars>>

\* A source of up to MaxTx transactions of up to MaxPayload parts.
UpstreamOffer == Offer(MaxTx, MaxPayload)

\* A source of up to MaxShutTx transactions of up to MaxShutPayload parts.
UpstreamOfferShut == Offer(MaxShutTx, MaxShutPayload)

\* The source closes the upstream channel (it is not blocked in a send).
UpstreamClose ==
    /\ upOpen
    /\ offer = NoTx
    /\ upOpen' = FALSE
    /\ UNCHANGED <<running, transactions, closeChan, closedChan, socketClosed, pc,
                   ts, idx, err, closing, consumeRet, mRunning, mCount, mSendErr,
                   mSendSucc, offer, nextId, received, sock, responses>>
    /\ UNCHANGED <<waitRet, recvAtClose, combVars, pipeVars, boundsVars, wrapVars,
                   extraVars>>

\* ------------------------------------------------------------- Consume
\* Consume without the test of s.transactions.
ConsumeAgain ==
    /\ transactions' = "upstream"
    /\ consumeRet' = "nil"
    /\ pc' = "check"
    /\ mRunning' = mRunning + 1
    /\ UNCHANGED <<running, closeChan, closedChan, socketClosed, ts, idx, err,
                   closing, mCount, mSendErr, mSendSucc, upOpen, offer, nextId,
                   received, sock, responses>>
    /\ UNCHANGED <<waitRet, recvAtClose, combVars, pipeVars, boundsVars, wrapVars,
                   extraVars>>

\* Consume(ts) with ts the source's channel:
\* if s.transactions != nil { return types.ErrAlreadyStarted }
\* s.transactions = ts; go s.loop(); return nil
Consume ==
    /\ IF transactions # nil
          THEN /\ consumeRet' = "ErrAlreadyStarted"
               /\ UNCHANGED <<transactions, pc, mRunning>>
          ELSE /\ transactions' = "upstream"
               /\ consumeRet' = "nil"
               \* go s.loop(): up to the for statement (mRunning.Incr(1), logs)
               /\ pc' = "check"
               /\ mRunning' = mRunning + 1
    /\ UNCHANGED <<running, closeChan, closedChan, socketClosed, ts, idx, err,
                   closing, mCount, mSendErr, mSendSucc, upOpen, offer, nextId,
                   received, sock, responses>>
    /\ UNCHANGED <<waitRet, recvAtClose, combVars, pipeVars, boundsVars, wrapVars,
                   extraVars>>

\* ---------------------------------------------------------------- loop
\* A for statement without its condition: the loop goes on whatever running is.
LoopCheckAlways ==
    /\ pc = "check"
    /\ pc' = "recv"
    /\ ts' = NoTx
    /\ UNCHANGED <<running, transactions, closeChan, closedChan, socketClosed,
                   idx, err, closing, consumeRet, mRunning, mCount, mSendErr,
                   mSendSucc, upOpen, offer, nextId, received, sock, responses>>
    /\ UNCHANGED <<waitRet, recvAtClose, combVars, pipeVars, boundsVars, wrapVars,
                   extraVars>>

\* for atomic.LoadInt32(&s.running) == 1 {
LoopCheck ==
    /\ pc = "check"
    /\ pc' = IF running = 1 THEN "recv" ELSE "defer"
    /\ ts' = NoTx
    /\ UNCHANGED <<running, transactions, closeChan, closedChan, socketClosed,
                   idx, err, closing, consumeRet, mRunning, mCount, mSendErr,
                   mSendSucc, upOpen, offer, nextId, received, sock, responses>>
    /\ UNCHANGED <<waitRet, recvAtClose, combVars, pipeVars, boundsVars, wrapVars,
                   extraVars>>

\* case ts, open = <-s.transactions, open: then mCount.Incr(1); var err error
LoopRecvTx ==
    /\ pc = "recv"
    /\ offer # NoTx
    /\ ts' = offer
    /\ offer' = NoTx
    /\ received' = Append(received, offer)
    /\ mCount' = mCount + 1
    /\ err' = nil
    /\ idx' = 1
    /\ pc' = "send"
    /\ UNCHANGED <<running, transactions, closeChan, closedChan, socketClosed,
                   closing, consumeRet, mRunning, mSendErr, mSendSucc, upOpen,
                   nextId, sock, responses>>
    /\ UNCHANGED <<waitRet, recvAtClose, combVars, pipeVars, boundsVars, wrapVars,
                   extraVars>>

\* case ts, open = <-s.transactions, !open: return
LoopRecvClosed ==
    /\ pc = "recv"
    /\ ~upOpen
    /\ pc' = "defer"
    /\ UNCHANGED <<running, transactions, closeChan, closedChan, socketClosed, ts,
                   idx, err, closing, consumeRet, mRunning, mCount, mSendErr,
                   mSendSucc, upOpen, offer, nextId, received, sock, responses>>
    /\ UNCHANGED <<waitRet, recvAtClose, combVars, pipeVars, boundsVars, wrapVars,
                   extraVars>>

\* case <-s.closeChan: return     (first select)
LoopRecvCloseChan ==
    /\ pc = "recv"
    /\ closeChan > 0
    /\ pc' = "defer"
    /\ UNCHANGED <<running, transactions, closeChan, closedChan, socketClosed, ts,
                   idx, err, closing, consumeRet, mRunning, mCount, mSendErr,
                   mSendSucc, upOpen, offer, nextId, received, sock, responses>>
    /\ UNCHANGED <<waitRet, recvAtClose, combVars, pipeVars, boundsVars, wrapVars,
                   extraVars>>

\* LoopSendPart without the break: a failed Send does not end the range.
LoopSendPartNoBreak ==
    /\ pc = "send"
    /\ idx <= Len(ts.Payload)
    /\ \E r \in {"ok"} \cup SendErrs :
          /\ sock' = Append(sock, [tx |-> ts.id, part |-> ts.Payload[idx], res |-> r])
          /\ err' = IF r = "ok" THEN nil ELSE r
          /\ idx' = idx + 1
          /\ pc' = "send"
    /\ UNCHANGED <<running, transactions, closeChan, closedChan, socketClosed, ts,
                   closing, consumeRet, mRunning, mCount, mSendErr, mSendSucc,
                   upOpen, offer, nextId, received, responses>>
    /\ UNCHANGED <<waitRet, recvAtClose, combVars, pipeVars, boundsVars, wrapVars,
                   extraVars>>

\* One iteration of `for _, part := range ts.Payload.GetAll()`:
\* err = s.socket.Send(part); a non-nil err breaks out of the range.
LoopSendPart ==
    /\ pc = "send"
    /\ idx <= Len(ts.Payload)
    /\ \E r \in {"ok"} \cup SendErrs :
          /\ sock' = Append(sock, [tx |-> ts.id, part |-> ts.Payload[idx], res |-> r])
          /\ IF r = "ok"
                THEN /\ err' = nil
                     /\ idx' = idx + 1
                     /\ pc' = "send"
                ELSE /\ err' = r
                     /\ idx' = idx
                     /\ pc' = "tally"
    /\ UNCHANGED <<running, transactions, closeChan, closedChan, socketClosed, ts,
                   closing, consumeRet, mRunning, mCount, mSendErr, mSendSucc,
                   upOpen, offer, nextId, received, responses>>
    /\ UNCHANGED <<waitRet, recvAtClose, combVars, pipeVars, boundsVars, wrapVars,
                   extraVars>>

\* The range is exhausted.
LoopSendEnd ==
    /\ pc = "send"
    /\ idx > Len(ts.Payload)
    /\ pc' = "tally"
    /\ UNCHANGED <<running, transactions, closeChan, closedChan, socketClosed, ts,
                   idx, err, closing, consumeRet, mRunning, mCount, mSendErr,
                   mSendSucc, upOpen, offer, nextId, received, sock, responses>>
    /\ UNCHANGED <<waitRet, recvAtClose, combVars, pipeVars, boundsVars, wrapVars,
                   extraVars>>

\* if err != nil { mSendErr.Incr(1) } else { mSendSucc.Incr(1) }
LoopTally ==
    /\ pc = "tally"
    /\ IF err # nil
          THEN mSendErr' = mSendErr + 1 /\ mSendSucc' = mSendSucc
          ELSE mSendSucc' = mSendSucc + 1 /\ mSendErr' = mSendErr
    /\ pc' = "respond"
    /\ UNCHANGED <<running, transactions, closeChan, closedChan, socketClosed, ts,
                   idx, err, closing, consumeRet, mRunning, mCount, upOpen, offer,
                   nextId, received, sock, responses>>
    /\ UNCHANGED <<waitRet, recvAtClose, combVars, pipeVars, boundsVars, wrapVars,
                   extraVars>>

\* LoopRespond that stays in the select after a completed send, so the
\* response can be sent again.
LoopRespondAgain ==
    /\ pc = "respond"
    /\ Len(responses[ts.id]) < 2
    /\ responses' = [responses EXCEPT ![ts.id] = Append(@, NewError(err))]
    /\ pc' \in {"respond", "check"}
    /\ UNCHANGED <<running, transactions, closeChan, closedChan, socketClosed, ts,
                   idx, err, closing, consumeRet, mRunning, mCount, mSendErr,
                   mSendSucc, upOpen, offer, nextId, received, sock>>
    /\ UNCHANGED <<waitRet, recvAtClose, combVars, pipeVars, boundsVars, wrapVars,
                   extraVars>>

\* LoopRespond with a select that may give up on the send (a default case).
LoopRespondDrop ==
    /\ pc = "respond"
    /\ \/ responses' = [responses EXCEPT ![ts.id] = Append(@, NewError(err))]
       \/ UNCHANGED responses
    /\ pc' = "check"
    /\ UNCHANGED <<running, transactions, closeChan, closedChan, socketClosed, ts,
                   idx, err, closing, consumeRet, mRunning, mCount, mSendErr,
                   mSendSucc, upOpen, offer, nextId, received, sock>>
    /\ UNCHANGED <<waitRet, recvAtClose, combVars, pipeVars, boundsVars, wrapVars,
                   extraVars>>

\* case ts.ResponseChan <- response.NewError(err): the source receives it.
LoopRespond ==
    /\ pc = "respond"
    /\ responses' = [responses EXCEPT ![ts.id] = Append(@, NewError(err))]
    /\ pc' = "check"
    /\ UNCHANGED <<running, transactions, closeChan, closedChan, socketClosed, ts,
                   idx, err, closing, consumeRet, mRunning, mCount, mSendErr,
                   mSendSucc, upOpen, offer, nextId, received, sock>>
    /\ UNCHANGED <<waitRet, recvAtClose, combVars, pipeVars, boundsVars, wrapVars,
                   extraVars>>

\* A second select without its closeChan case: the loop stays blocked.
LoopRespondNoCloseCase ==
    /\ pc = "respond"
    /\ closeChan > 0
    /\ UNCHANGED vars

\* case <-s.closeChan: return     (second select)
LoopRespondCloseChan ==
    /\ pc = "respond"
    /\ closeChan > 0
    /\ pc' = "defer"
    /\ UNCHANGED <<running, transactions, closeChan, closedChan, socketClosed, ts,
                   idx, err, closing, consumeRet, mRunning, mCount, mSendErr,
                   mSendSucc, upOpen, offer, nextId, received, sock, responses>>
    /\ UNCHANGED <<waitRet, recvAtClose, combVars, pipeVars, boundsVars, wrapVars,
                   extraVars>>

\* defer: atomic.StoreInt32(&s.running, 0)
LoopDeferStore ==
    /\ pc = "defer"
    /\ running' = 0
    /\ recvAtClose' = IF running = 1 THEN Len(received) ELSE recvAtClose
    /\ pc' = "defer2"
    /\ UNCHANGED <<transactions, closeChan, closedChan, socketClosed, ts, idx, err,
                   closing, consumeRet, mRunning, mCount, mSendErr, mSendSucc,
                   upOpen, offer, nextId, received, sock, responses>>
    /\ UNCHANGED <<waitRet, combVars, pipeVars, boundsVars, wrapVars, extraVars>>

\* defer: s.socket.Close(); mRunning.Decr(1); close(s.closedChan)
LoopDeferClose ==
    /\ pc = "defer2"
    /\ socketClosed' = TRUE
    /\ mRunning' = mRunning - 1
    /\ closedChan' = closedChan + 1
    /\ pc' = "done"
    /\ UNCHANGED <<running, transactions, closeChan, ts, idx, err, closing,
                   consumeRet, mCount, mSendErr, mSendSucc, upOpen, offer, nextId,
                   received, sock, responses>>
    /\ UNCHANGED <<waitRet, recvAtClose, combVars, pipeVars, boundsVars, wrapVars,
                   extraVars>>

\* ----------------------------------------------------------- CloseAsync
\* A CloseAsync that stores 0 without comparing and goes on to close closeChan.
CloseAsyncNoCAS ==
    /\ running' = 0
    /\ closing' = TRUE
    /\ recvAtClose' = IF running = 1 THEN Len(received) ELSE recvAtClose
    /\ UNCHANGED <<transactions, closeChan, closedChan, socketClosed, pc, ts, idx,
                   err, consumeRet, mRunning, mCount, mSendErr, mSendSucc, upOpen,
                   offer, nextId, received, sock, responses>>
    /\ UNCHANGED <<waitRet, combVars, pipeVars, boundsVars, wrapVars, extraVars>>

\* if atomic.CompareAndSwapInt32(&s.running, 1, 0) {
CloseAsyncCAS ==
    /\ IF running = 1
          THEN /\ running' = 0
               /\ closing' = TRUE
               /\ recvAtClose' = Len(received)
          ELSE UNCHANGED <<running, closing, recvAtClose>>
    /\ UNCHANGED <<transactions, closeChan, closedChan, socketClosed, pc, ts, idx,
                   err, consumeRet, mRunning, mCount, mSendErr, mSendSucc, upOpen,
                   offer, nextId, received, sock, responses>>
    /\ UNCHANGED <<waitRet, combVars, pipeVars, boundsVars, wrapVars, extraVars>>

\*     close(s.closeChan) }
CloseAsyncClose ==
    /\ closing
    /\ closing' = FALSE
    /\ closeChan' = closeChan + 1
    /\ UNCHANGED <<running, transactions, closedChan, socketClosed, pc, ts, idx,
                   err, consumeRet, mRunning, mCount, mSendErr, mSendSucc, upOpen,
                   offer, nextId, received, sock, responses>>
    /\ UNCHANGED <<waitRet, recvAtClose, combVars, pipeVars, boundsVars, wrapVars,
                   extraVars>>

\* ---------------------------------------------------------- WaitForClose
\* A WaitForClose that returns nil from either case of its select.
WaitForCloseAnyCase ==
    /\ waitRet' \in {"nil", "ErrTimeout"}
    /\ UNCHANGED <<running, transactions, closeChan, closedChan, socketClosed, pc,
                   ts, idx, err, closing, consumeRet, mRunning, mCount, mSendErr,
                   mSendSucc, upOpen, offer, nextId, received, sock, responses>>
    /\ UNCHANGED <<recvAtClose, combVars, pipeVars, boundsVars, wrapVars,
                   extraVars>>

\* select { case <-s.closedChan: case <-time.After(timeout): return ErrTimeout }
\* return nil
\* The call is taken at the moment its select fires: the first case needs
\* closedChan closed, the timer can fire in any state.
WaitForClose ==
    /\ \/ closedChan > 0 /\ waitRet' = "nil"
       \/ waitRet' = "ErrTimeout"
    /\ UNCHANGED <<running, transactions, closeChan, closedChan, socketClosed, pc,
                   ts, idx, err, closing, consumeRet, mRunning, mCount, mSendErr,
                   mSendSucc, upOpen, offer, nextId, received, sock, responses>>
    /\ UNCHANGED <<recvAtClose, combVars, pipeVars, boundsVars, wrapVars,
                   extraVars>>

\* ======================================================== Combine
\* Metadata maps a message can carry, as sets of <<key, value>> pairs.
MetaA == {<<"k", "1">>}
MetaB == {<<"k", "2">>, <<"j", "1">>}
Metas == {MetaA, MetaB}

\* NewCombine: an empty buffer, counters at zero.
CombFields ==
    /\ parts = <<>>
    /\ cmCount = 0
    /\ cmWarnParts = 0
    /\ cmSent = 0
    /\ cmSentParts = 0
    /\ cmDropped = 0
    /\ retMsgs = <<>>
    /\ retRes = NoRes
    /\ inputs = <<>>
    /\ emitted = <<>>

\* NewCombine with n: conf.Combine.Parts taken from a configuration.
CombInit == n \in 1..MaxN /\ CombFields

\* NewCombine with the default configuration.
CombDefault == n = DefaultParts /\ CombFields

\* newMsg.SetMetadata(k, v)
SetMetadata(meta, k, v) == {p \in meta : p[1] # k} \cup {<<k, v>>}

\* msg.IterMetadata(func(k, v) { newMsg.SetMetadata(k, v) }) on metadata `to`.
RECURSIVE IterMetadata(_, _)
IterMetadata(from, to) ==
    IF from = {} THEN to
    ELSE LET p == CHOOSE q \in from : TRUE
         IN  IterMetadata(from \ {p}, SetMetadata(to, p[1], p[2]))

\* NewBatch that leaves the metadata of the batch empty.
NewBatchNoMeta(buf, msg) == [parts |-> buf, meta |-> {}]

\* NewBatch that cuts the batch at n parts and drops the rest.
NewBatchCut(buf, msg) ==
    [parts |-> SubSeq(buf, 1, n), meta |-> IterMetadata(msg.meta, {})]

\* message.New(c.parts) followed by the copy of msg's metadata.
NewBatch(buf, msg) == [parts |-> buf, meta |-> IterMetadata(msg.meta, {})]

\* TooManyParts off by one.
TooManyPartsOffByOne(msg) == Len(msg.parts) > n + 1

\* msg.Len() > c.n
TooManyParts(msg) == Len(msg.parts) > n

\* AppendParts that puts the new parts in front of the buffer.
AppendPartsInFront(buf, msg) == msg.parts \o buf

\* for _, part := range msg.GetAll() { c.parts = append(c.parts, part) }
AppendParts(buf, msg) == buf \o msg.parts

\* TargetReached with > for >=.
TargetReachedStrict(buf) == Len(buf) > n

\* len(c.parts) >= c.n
TargetReached(buf) == Len(buf) >= n

\* AfterBatch that keeps the last part of the batch in the buffer.
AfterBatchLast(buf) == SubSeq(buf, Len(buf), Len(buf))

\* AfterBatch that forgets to reset the buffer.
AfterBatchKept(buf) == buf

\* The buffer after a batch was built from it: c.parts = nil
AfterBatch(buf) == <<>>

\* PendingResponse that reports an error for a message that was buffered.
PendingResponseError == NewError("errPending")

\* PendingResponse acknowledging a message that was only buffered.
PendingResponseAck == NewAck

\* return nil, response.NewUnack()
PendingResponse == NewUnack

\* Combine.ProcessMessage(msg)
ProcessMessage(msg) ==
    /\ cmCount' = cmCount + 1
    /\ inputs' = Append(inputs, msg)
    /\ IF TooManyParts(msg)
          THEN /\ cmWarnParts' = cmWarnParts + 1
               /\ cmSent' = cmSent + 1
               /\ cmSentParts' = cmSentParts + Len(msg.parts)
               /\ retMsgs' = <<msg>>
               /\ retRes' = NoRes
               /\ UNCHANGED <<parts, cmDropped>>
          ELSE LET buf == AppendParts(parts, msg)
               IN  IF TargetReached(buf)
                      THEN /\ parts' = AfterBatch(buf)
                           /\ cmSent' = cmSent + 1
                           /\ cmSentParts' = cmSentParts + Len(buf)
                           /\ retMsgs' = <<NewBatch(buf, msg)>>
                           /\ retRes' = NoRes
                           /\ UNCHANGED <<cmWarnParts, cmDropped>>
                      ELSE /\ parts' = buf
                           /\ cmDropped' = cmDropped + 1
                           /\ retMsgs' = <<>>
                           /\ retRes' = PendingResponse
                           /\ UNCHANGED <<cmWarnParts, cmSent, cmSentParts>>
    /\ emitted' = emitted \o retMsgs'
    /\ UNCHANGED n

\* A caller hands the next message to the processor.
CombineCall ==
    /\ Len(inputs) < MaxCalls
    /\ \E k \in 0..MaxLen, meta \in Metas :
          ProcessMessage([parts |-> PartsOf(Len(inputs) + 1, k), meta |-> meta])
    /\ UNCHANGED <<nanoVars, pipeVars, boundsVars, wrapVars, extraVars>>

\* ================================== a pipeline hosting one Combine
\* errors the downstream of the pipeline can answer with
DownErrs == {"errDown"}

PipeInit ==
    /\ pPc = "recv"
    /\ pTran = NoTx
    /\ down = <<>>
    /\ downRes = <<>>
    /\ pReplies = [t \in 1..(MaxPipeTx + 1) |-> <<>>]

\* Number of Error responses the downstream gave so far.
DownErrCount == Cardinality({j \in 1..Len(downRes) : downRes[j].err # nil})

\* The pipeline receives upstream transaction t and runs its processor chain
\* (the one Combine) on t's payload.
PipeRecv ==
    /\ pPc = "recv"
    /\ Len(inputs) < MaxPipeTx
    /\ \E k \in 0..MaxPipeLen, meta \in Metas :
          LET msg == [parts |-> PartsOf(Len(inputs) + 1, k), meta |-> meta]
          IN  /\ pTran' = [id |-> Len(inputs) + 1, Payload |-> msg]
              /\ ProcessMessage(msg)
    /\ pPc' = IF retMsgs' = <<>> THEN "respond" ELSE "emit"
    /\ UNCHANGED <<down, downRes, pReplies>>
    /\ UNCHANGED <<nanoVars, boundsVars, wrapVars, extraVars>>

\* The chain ended without messages: the processor's Response goes to t's reply
\* sink (an Ack when the chain gave none) and nothing goes downstream.
PipeForwardResponse ==
    /\ pPc = "respond"
    /\ pReplies' = [pReplies EXCEPT ![pTran.id] =
                       Append(@, IF retRes = NoRes THEN NewAck ELSE retRes)]
    /\ pPc' = "recv"
    /\ UNCHANGED <<pTran, down, downRes>>
    /\ UNCHANGED <<nanoVars, combVars, boundsVars, wrapVars, extraVars>>

\* The chain's message is sent downstream as a transaction with an inner reply.
PipeEmit ==
    /\ pPc = "emit"
    /\ down' = Append(down, retMsgs[1])
    /\ pPc' = "await"
    /\ UNCHANGED <<pTran, downRes, pReplies>>
    /\ UNCHANGED <<nanoVars, combVars, boundsVars, wrapVars, extraVars>>

\* The downstream answers Ack: t's reply sink receives the Ack.
DownstreamAck ==
    /\ pPc = "await"
    /\ downRes' = Append(downRes, NewAck)
    /\ pReplies' = [pReplies EXCEPT ![pTran.id] = Append(@, NewAck)]
    /\ pPc' = "recv"
    /\ UNCHANGED <<pTran, down>>
    /\ UNCHANGED <<nanoVars, combVars, boundsVars, wrapVars, extraVars>>

\* The downstream answers Error: the pipeline sends the same message again and
\* t's reply sink receives nothing (TestBasicWrapProcessors: "Send error",
\* "Receive again").
DownstreamError ==
    /\ pPc = "await"
    /\ DownErrCount < MaxDownErrs
    /\ \E e \in DownErrs : downRes' = Append(downRes, NewError(e))
    /\ pPc' = "emit"
    /\ UNCHANGED <<pTran, down, pReplies>>
    /\ UNCHANGED <<nanoVars, combVars, boundsVars, wrapVars, extraVars>>

\* ==================================================== BoundsCheck
\* The values a bound on the number of parts is configured with.
BoundsPartCounts == 0..MaxBoundsParts
\* The values a bound on the size of a part is configured with.
BoundsPartSizes == 0..MaxBoundsSize

\* NewBoundsCheck(conf, ...): the configuration is kept, counters at zero.
BoundsInit ==
    /\ bConf \in [MaxParts : BoundsPartCounts, MinParts : BoundsPartCounts,
                  MaxPartSize : BoundsPartSizes, MinPartSize : BoundsPartSizes]
    /\ bCount = 0
    /\ bDropped = 0
    /\ bDroppedEmpty = 0
    /\ bDroppedNumParts = 0
    /\ bDroppedPartSize = 0
    /\ bSent = 0
    /\ bSentParts = 0
    /\ bMsg = <<>>
    /\ bRetMsgs = <<>>
    /\ bRetRes = NoRes

\* The state of a BoundsCheck that is never called.
BoundsIdle ==
    /\ bConf = [MaxParts |-> 1, MinParts |-> 1, MaxPartSize |-> 1, MinPartSize |-> 1]
    /\ bCount = 0
    /\ bDropped = 0
    /\ bDroppedEmpty = 0
    /\ bDroppedNumParts = 0
    /\ bDroppedPartSize = 0
    /\ bSent = 0
    /\ bSentParts = 0
    /\ bMsg = <<>>
    /\ bRetMsgs = <<>>
    /\ bRetRes = NoRes

\* The messages handed to BoundsCheck: a message is the sequence of the sizes
\* of its parts (the processor reads nothing else of it).
BoundsMessages ==
    UNION {[1..k -> 0..MaxBoundsSize] : k \in 0..(MaxBoundsParts + 1)}

\* PartOutOfBounds that tests the upper bound only.
PartOutOfBoundsMaxOnly(msg) ==
    \E i \in 1..Len(msg) : msg[i] > bConf.MaxPartSize

\* for _, part := range msg.GetAll() {
\*     if size := len(part); size > MaxPartSize || size < MinPartSize {
PartOutOfBounds(msg) ==
    \E i \in 1..Len(msg) :
        msg[i] > bConf.MaxPartSize \/ msg[i] < bConf.MinPartSize

\* DropReason that looks at the part sizes before the number of parts.
DropReasonSizeFirst(msg) ==
    IF PartOutOfBounds(msg) THEN "part_size"
    ELSE IF Len(msg) < bConf.MinParts THEN "empty"
    ELSE IF Len(msg) > bConf.MaxParts THEN "num_parts"
    ELSE "none"

\* The branch ProcessMessage takes, in the order of its tests:
\* lParts < MinParts, else lParts > MaxParts, else the loop over the parts.
DropReason(msg) ==
    IF Len(msg) < bConf.MinParts THEN "empty"
    ELSE IF Len(msg) > bConf.MaxParts THEN "num_parts"
    ELSE IF PartOutOfBounds(msg) THEN "part_size"
    ELSE "none"

\* BoundsCheck.ProcessMessage(msg)
BoundsProcessMessage(msg) ==
    LET reason == DropReason(msg)
    IN  /\ bCount' = bCount + 1
        /\ bMsg' = msg
        /\ IF reason = "none"
              THEN /\ bSent' = bSent + 1
                   /\ bSentParts' = bSentParts + Len(msg)
                   /\ bRetMsgs' = <<msg>>
                   /\ bRetRes' = NoRes
                   /\ UNCHANGED <<bDropped, bDroppedEmpty, bDroppedNumParts,
                                  bDroppedPartSize>>
              ELSE /\ bDropped' = bDropped + 1
                   /\ bDroppedEmpty' = bDroppedEmpty + (IF reason = "empty" THEN 1 ELSE 0)
                   /\ bDroppedNumParts' =
                          bDroppedNumParts + (IF reason = "num_parts" THEN 1 ELSE 0)
                   /\ bDroppedPartSize' =
                          bDroppedPartSize + (IF reason = "part_size" THEN 1 ELSE 0)
                   /\ bRetMsgs' = <<>>
                   /\ bRetRes' = NewAck
                   /\ UNCHANGED <<bSent, bSentParts>>
        /\ UNCHANGED bConf

\* A caller hands the next message to the processor.
BoundsCall ==
    /\ bCount < MaxBoundsCalls
    /\ \E msg \in BoundsMessages : BoundsProcessMessage(msg)
    /\ UNCHANGED <<nanoVars, combVars, pipeVars, wrapVars, extraVars>>

\* ====================================== an input wrapped with pipelines
\* mockProc{value: ...}: the values the tests construct processors with.
MockValues == {"foo", "bar"}
\* The first part of the messages a source sends.
WrapContents == {"foo", "bar", "baz"}
\* The processor chains of a pipeline: pipeline.NewProcessor(l, s, procs...).
WrapChains == {<<"foo">>, <<"bar">>, <<"foo", "bar">>}
\* Errors the reader of the composite input answers with.
WrapErrs == {"errWrap"}
\* No transaction in hand.
NoWrapTx == [id |-> 0, msg |-> "none"]

\* WrapWithPipelines(in, p1, ..., pn) returned without error: every pipeline
\* waits for a transaction, nothing is closed.
WrapInit ==
    /\ wN \in 1..MaxPipes
    /\ wProcs \in [1..wN -> WrapChains]
    /\ wPc = [i \in 1..wN |-> "recv"]
    /\ wTran = [i \in 1..wN |-> NoWrapTx]
    /\ wRes = [i \in 1..wN |-> NoRes]
    /\ wRan = [i \in 1..wN |-> 0]
    /\ wClosing = FALSE
    /\ wCloseCalls = <<>>
    /\ wWaitRet = "none"
    /\ wSent = <<>>
    /\ wReplies = [t \in 1..MaxWrapTx |-> <<>>]
    /\ wDown = <<>>
    /\ wDownRes = <<>>

\* The state of a wrapped input nothing is done with.
WrapIdle ==
    /\ wN = 1
    /\ wProcs = [i \in 1..1 |-> <<"foo">>]
    /\ wPc = [i \in 1..1 |-> "recv"]
    /\ wTran = [i \in 1..1 |-> NoWrapTx]
    /\ wRes = [i \in 1..1 |-> NoRes]
    /\ wRan = [i \in 1..1 |-> 0]
    /\ wClosing = FALSE
    /\ wCloseCalls = <<>>
    /\ wWaitRet = "none"
    /\ wSent = <<>>
    /\ wReplies = [t \in 1..MaxWrapTx |-> <<>>]
    /\ wDown = <<>>
    /\ wDownRes = <<>>

\* mockProc.ProcessMessage that acknowledges the message it filters out.
MockProcessMessageAck(value, msg) ==
    IF msg = value
       THEN [msgs |-> <<>>, res |-> NewAck]
       ELSE [msgs |-> <<msg>>, res |-> NoRes]

\* mockProc.ProcessMessage: SkipAck when part 0 is the processor's value,
\* the message itself otherwise.
MockProcessMessage(value, msg) ==
    IF msg = value
       THEN [msgs |-> <<>>, res |-> NewUnack]
       ELSE [msgs |-> <<msg>>, res |-> NoRes]

\* The pipeline runs its processors from the k-th on, in order, on msg: a
\* processor that returns a Response ends the run, a processor that returns
\* the message hands it to the next one.
RECURSIVE RunChain(_, _, _)
RunChain(chain, k, msg) ==
    IF k > Len(chain)
       THEN [msgs |-> <<msg>>, res |-> NoRes, ran |-> Len(chain)]
       ELSE LET r == MockProcessMessage(chain[k], msg)
            IN  IF r.msgs = <<>>
                   THEN [msgs |-> <<>>, res |-> r.res, ran |-> k]
                   ELSE RunChain(chain, k + 1, r.msgs[1])

\* The position of pipeline i after it ran its chain on a transaction.
AfterChain(r) == IF r.msgs = <<>> THEN "respond" ELSE "emit"

\* Number of Error responses the reader gave so far.
WrapErrCount == Cardinality({j \in 1..Len(wDownRes) : wDownRes[j].err # nil})

\* CloseAsync has been called on component c (0: the input, i: pipeline i).
CloseCalled(c) == \E j \in 1..Len(wCloseCalls) : wCloseCalls[j] = c

\* The source behind the wrapped input sends a transaction; pipeline 1
\* receives it and runs its chain.
WrapSend ==
    /\ ~CloseCalled(0)
    /\ Len(wSent) < MaxWrapTx
    /\ wPc[1] = "recv"
    /\ \E m \in WrapContents :
          LET r == RunChain(wProcs[1], 1, m)
          IN  /\ wSent' = Append(wSent, m)
              /\ wTran' = [wTran EXCEPT ![1] = [id |-> Len(wSent) + 1, msg |-> m]]
              /\ wRes' = [wRes EXCEPT ![1] = r.res]
              /\ wRan' = [wRan EXCEPT ![1] = r.ran]
              /\ wPc' = [wPc EXCEPT ![1] = AfterChain(r)]
    /\ UNCHANGED <<wN, wProcs, wClosing, wCloseCalls, wWaitRet, wReplies, wDown,
                   wDownRes>>
    /\ UNCHANGED <<nanoVars, combVars, pipeVars, boundsVars, extraVars>>

\* Pipeline 1 sends its Response on the reply sink of the source's transaction.
WrapReply ==
    /\ wPc[1] = "respond"
    /\ wReplies' = [wReplies EXCEPT ![wTran[1].id] = Append(@, wRes[1])]
    /\ wPc' = [wPc EXCEPT ![1] = "recv"]
    /\ UNCHANGED <<wN, wProcs, wTran, wRes, wRan, wClosing, wCloseCalls, wWaitRet,
                   wSent, wDown, wDownRes>>
    /\ UNCHANGED <<nanoVars, combVars, pipeVars, boundsVars, extraVars>>

\* Pipeline i emits its message as a transaction; pipeline i+1 receives it
\* and runs its chain.
WrapHandOn ==
    /\ \E i \in 1..(wN - 1) :
          /\ wPc[i] = "emit"
          /\ wPc[i + 1] = "recv"
          /\ LET r == RunChain(wProcs[i + 1], 1, wTran[i].msg)
             IN  /\ wTran' = [wTran EXCEPT ![i + 1] = wTran[i]]
                 /\ wRes' = [wRes EXCEPT ![i + 1] = r.res]
                 /\ wRan' = [wRan EXCEPT ![i + 1] = r.ran]
                 /\ wPc' = [wPc EXCEPT ![i] = "await", ![i + 1] = AfterChain(r)]
    /\ UNCHANGED <<wN, wProcs, wClosing, wCloseCalls, wWaitRet, wSent, wReplies,
                   wDown, wDownRes>>
    /\ UNCHANGED <<nanoVars, combVars, pipeVars, boundsVars, extraVars>>

\* Pipeline i sends its Response to pipeline i-1, which waits for it: an Error
\* makes pipeline i-1 emit its message again, any other Response is what
\* pipeline i-1 sends upstream in turn.
WrapHandBack ==
    /\ \E i \in 2..wN :
          /\ wPc[i] = "respond"
          /\ wPc[i - 1] = "await"
          /\ IF wRes[i].err # nil
                THEN /\ wPc' = [wPc EXCEPT ![i] = "recv", ![i - 1] = "emit"]
                     /\ UNCHANGED wRes
                ELSE /\ wPc' = [wPc EXCEPT ![i] = "recv", ![i - 1] = "respond"]
                     /\ wRes' = [wRes EXCEPT ![i - 1] = wRes[i]]
    /\ UNCHANGED <<wN, wProcs, wTran, wRan, wClosing, wCloseCalls, wWaitRet, wSent,
                   wReplies, wDown, wDownRes>>
    /\ UNCHANGED <<nanoVars, combVars, pipeVars, boundsVars, extraVars>>

\* The last pipeline emits its message as a transaction and the reader of the
\* composite input receives it from TransactionChan().
WrapDeliver ==
    /\ wPc[wN] = "emit"
    /\ wDown' = Append(wDown, wTran[wN])
    /\ wPc' = [wPc EXCEPT ![wN] = "await"]
    /\ UNCHANGED <<wN, wProcs, wTran, wRes, wRan, wClosing, wCloseCalls, wWaitRet,
                   wSent, wReplies, wDownRes>>
    /\ UNCHANGED <<nanoVars, combVars, pipeVars, boundsVars, extraVars>>

\* WrapReaderAck of a pipeline that answers SkipAck upstream.
WrapReaderAckSkip ==
    /\ wPc[wN] = "await"
    /\ Len(wDownRes) < Len(wDown)
    /\ wDownRes' = Append(wDownRes, NewAck)
    /\ wRes' = [wRes EXCEPT ![wN] = NewUnack]
    /\ wPc' = [wPc EXCEPT ![wN] = "respond"]
    /\ UNCHANGED <<wN, wProcs, wTran, wRan, wClosing, wCloseCalls, wWaitRet, wSent,
                   wReplies, wDown>>
    /\ UNCHANGED <<nanoVars, combVars, pipeVars, boundsVars, extraVars>>

\* The reader answers response.NewAck(): the last pipeline has an Ack to send
\* upstream ("Send non-error", "Receive response").
WrapReaderAck ==
    /\ wPc[wN] = "await"
    /\ Len(wDownRes) < Len(wDown)
    /\ wDownRes' = Append(wDownRes, NewAck)
    /\ wRes' = [wRes EXCEPT ![wN] = NewAck]
    /\ wPc' = [wPc EXCEPT ![wN] = "respond"]
    /\ UNCHANGED <<wN, wProcs, wTran, wRan, wClosing, wCloseCalls, wWaitRet, wSent,
                   wReplies, wDown>>
    /\ UNCHANGED <<nanoVars, combVars, pipeVars, boundsVars, extraVars>>

\* WrapReaderError of a pipeline that hands the Error upstream.
WrapReaderErrorForward ==
    /\ wPc[wN] = "await"
    /\ Len(wDownRes) < Len(wDown)
    /\ WrapErrCount < MaxWrapErrs
    /\ \E e \in WrapErrs :
          /\ wDownRes' = Append(wDownRes, NewError(e))
          /\ wRes' = [wRes EXCEPT ![wN] = NewError(e)]
    /\ wPc' = [wPc EXCEPT ![wN] = "respond"]
    /\ UNCHANGED <<wN, wProcs, wTran, wRan, wClosing, wCloseCalls, wWaitRet, wSent,
                   wReplies, wDown>>
    /\ UNCHANGED <<nanoVars, combVars, pipeVars, boundsVars, extraVars>>

\* The reader answers response.NewError(err): the last pipeline emits the same
\* message again and sends nothing upstream ("Send error", "Receive again").
WrapReaderError ==
    /\ wPc[wN] = "await"
    /\ Len(wDownRes) < Len(wDown)
    /\ WrapErrCount < MaxWrapErrs
    /\ \E e \in WrapErrs : wDownRes' = Append(wDownRes, NewError(e))
    /\ wPc' = [wPc EXCEPT ![wN] = "emit"]
    /\ UNCHANGED <<wN, wProcs, wTran, wRes, wRan, wClosing, wCloseCalls, wWaitRet,
                   wSent, wReplies, wDown>>
    /\ UNCHANGED <<nanoVars, combVars, pipeVars, boundsVars, extraVars>>

\* CloseAsync on the composite input, first step: CloseAsync on the wrapped
\* input.
WrapCloseAsync ==
    /\ ~wClosing
    /\ wCloseCalls = <<>>
    /\ wClosing' = TRUE
    /\ wCloseCalls' = <<0>>
    /\ UNCHANGED <<wN, wProcs, wPc, wTran, wRes, wRan, wWaitRet, wSent, wReplies,
                   wDown, wDownRes>>
    /\ UNCHANGED <<nanoVars, combVars, pipeVars, boundsVars, extraVars>>

\* WrapCloseAsyncPipe that closes the pipelines from the last to the first.
WrapCloseAsyncPipeBackwards ==
    /\ wClosing
    /\ IF Len(wCloseCalls) <= wN
          THEN /\ wCloseCalls' = Append(wCloseCalls, wN + 1 - Len(wCloseCalls))
               /\ UNCHANGED wClosing
          ELSE /\ wClosing' = FALSE
               /\ UNCHANGED wCloseCalls
    /\ UNCHANGED <<wN, wProcs, wPc, wTran, wRes, wRan, wWaitRet, wSent, wReplies,
                   wDown, wDownRes>>
    /\ UNCHANGED <<nanoVars, combVars, pipeVars, boundsVars, extraVars>>

\* CloseAsync on the composite input, following steps: CloseAsync on the next
\* pipeline, p1 first; the call returns after pn.
WrapCloseAsyncPipe ==
    /\ wClosing
    /\ IF Len(wCloseCalls) <= wN
          THEN /\ wCloseCalls' = Append(wCloseCalls, Len(wCloseCalls))
               /\ UNCHANGED wClosing
          ELSE /\ wClosing' = FALSE
               /\ UNCHANGED wCloseCalls
    /\ UNCHANGED <<wN, wProcs, wPc, wTran, wRes, wRan, wWaitRet, wSent, wReplies,
                   wDown, wDownRes>>
    /\ UNCHANGED <<nanoVars, combVars, pipeVars, boundsVars, extraVars>>

\* Pipeline i stops: CloseAsync was called on it, or it waits for a
\* transaction from a channel that has been closed (the wrapped input's after
\* its CloseAsync, pipeline i-1's after it stopped).
WrapPipeExit ==
    /\ \E i \in 1..wN :
          /\ wPc[i] # "closed"
          /\ \/ CloseCalled(i)
             \/ wPc[i] = "recv" /\ i = 1 /\ CloseCalled(0)
             \/ wPc[i] = "recv" /\ i > 1 /\ wPc[i - 1] = "closed"
          /\ wPc' = [wPc EXCEPT ![i] = "closed"]
    /\ UNCHANGED <<wN, wProcs, wTran, wRes, wRan, wClosing, wCloseCalls, wWaitRet,
                   wSent, wReplies, wDown, wDownRes>>
    /\ UNCHANGED <<nanoVars, combVars, pipeVars, boundsVars, extraVars>>

\* WaitForClose on the composite input is WaitForClose on the last pipeline:
\* nil once that pipeline has stopped, ErrTimeout when the timeout passes.
WrapWaitForClose ==
    /\ \/ wPc[wN] = "closed" /\ wWaitRet' = "nil"
       \/ wWaitRet' = "ErrTimeout"
    /\ UNCHANGED <<wN, wProcs, wPc, wTran, wRes, wRan, wClosing, wCloseCalls,
                   wSent, wReplies, wDown, wDownRes>>
    /\ UNCHANGED <<nanoVars, combVars, pipeVars, boundsVars, extraVars>>

\* ======================= WrapWithPipelines(mockIn, ctors...): construction
\* errors a pipeline constructor can return
CtorErrs == {"nope", "errCtor"}

\* mockIn := &mockInput{ts: make(chan types.Transaction)}; ts is channel 0.
MockIn == [obj |-> "mockIn", ts |-> 0, pipes |-> <<>>]

\* The nil Input returned along with an error.
NilInput == [obj |-> "nil", ts |-> 0, pipes |-> <<>>]

\* The test is about to call WrapWithPipelines with up to MaxCtors
\* constructors, each returning a mockPipe or an error.
CtorInit ==
    /\ kCtors \in UNION {[1..k -> {"ok"} \cup CtorErrs] : k \in 0..MaxCtors}
    /\ kPc = "ctor"
    /\ kInvoked = <<>>
    /\ kPipes = <<>>
    /\ kConsume = <<>>
    /\ kInCalls = <<>>
    /\ kClosed = <<>>
    /\ kErr = nil
    /\ kRet = NoCtorRet

\* The channel the next pipeline is to consume: the TransactionChan of the
\* input wrapped so far.
UpstreamChan == IF kPipes = <<>> THEN MockIn.ts ELSE kPipes[Len(kPipes)]

\* mockPipe.Consume that stores the pipeline's own channel.
MockConsumeOwn(calls, i, tsIn) == Append(calls, [pipe |-> i, ts |-> i])

\* mockPipe.Consume(tsIn): m.tsIn = tsIn
MockConsume(calls, i, tsIn) == Append(calls, [pipe |-> i, ts |-> tsIn])

\* mockPipe.CloseAsync that closes the channel of the input instead.
MockCloseAsyncInput(closed, i) == Append(closed, MockIn.ts)

\* mockPipe.CloseAsync(): close(m.ts)
MockCloseAsync(closed, i) == Append(closed, i)

\* The result of a call whose constructors all succeeded, wrapping always.
CompositeAlways(pipes) ==
    [obj |-> "WithPipeline",
     ts |-> IF pipes = <<>> THEN MockIn.ts ELSE pipes[Len(pipes)],
     pipes |-> pipes]

\* The result of a call whose constructors all succeeded: the input itself
\* when there is no pipeline, else the composite whose TransactionChan is the
\* last pipeline's.
Composite(pipes) ==
    IF pipes = <<>> THEN MockIn
    ELSE [obj |-> "WithPipeline", ts |-> pipes[Len(pipes)], pipes |-> pipes]

\* The next constructor is invoked and returns a pipeline.
CtorOk ==
    /\ kPc = "ctor"
    /\ Len(kInvoked) < Len(kCtors)
    /\ LET i == Len(kInvoked) + 1
       IN  /\ kCtors[i] = "ok"
           /\ kInvoked' = Append(kInvoked, i)
           /\ kPc' = "consume"
    /\ UNCHANGED <<kCtors, kPipes, kConsume, kInCalls, kClosed, kErr, kRet>>
    /\ UNCHANGED <<nanoVars, combVars, pipeVars, boundsVars, wrapVars, procType, presVars, textVars,
                   confVars>>

\* The next constructor is invoked and returns an error.
CtorFail ==
    /\ kPc = "ctor"
    /\ Len(kInvoked) < Len(kCtors)
    /\ LET i == Len(kInvoked) + 1
       IN  /\ kCtors[i] # "ok"
           /\ kInvoked' = Append(kInvoked, i)
           /\ kErr' = kCtors[i]
           /\ kPc' = "close"
    /\ UNCHANGED <<kCtors, kPipes, kConsume, kInCalls, kClosed, kRet>>
    /\ UNCHANGED <<nanoVars, combVars, pipeVars, boundsVars, wrapVars, procType, presVars, textVars,
                   confVars>>

\* The new pipeline is told to consume the TransactionChan of what was built
\* so far; for the first pipeline that is asked of the input.
CtorConsume ==
    /\ kPc = "consume"
    /\ LET i == kInvoked[Len(kInvoked)]
       IN  /\ kConsume' = MockConsume(kConsume, i, UpstreamChan)
           /\ kPipes' = Append(kPipes, i)
    /\ kInCalls' = IF kPipes = <<>> THEN Append(kInCalls, "TransactionChan")
                   ELSE kInCalls
    /\ kPc' = "ctor"
    /\ UNCHANGED <<kCtors, kInvoked, kClosed, kErr, kRet>>
    /\ UNCHANGED <<nanoVars, combVars, pipeVars, boundsVars, wrapVars, procType, presVars, textVars,
                   confVars>>

\* After a constructor failed: the next pipeline built before it is closed.
CtorCloseBuilt ==
    /\ kPc = "close"
    /\ Len(kClosed) < Len(kPipes)
    /\ kClosed' = MockCloseAsync(kClosed, kPipes[Len(kClosed) + 1])
    /\ UNCHANGED <<kCtors, kPc, kInvoked, kPipes, kConsume, kInCalls, kErr, kRet>>
    /\ UNCHANGED <<nanoVars, combVars, pipeVars, boundsVars, wrapVars, procType, presVars, textVars,
                   confVars>>

\* After a constructor failed and what was built is closed: return its error.
CtorReturnErr ==
    /\ kPc = "close"
    /\ Len(kClosed) >= Len(kPipes)
    /\ kRet' = [input |-> NilInput, err |-> kErr]
    /\ kPc' = "done"
    /\ UNCHANGED <<kCtors, kInvoked, kPipes, kConsume, kInCalls, kClosed, kErr>>
    /\ UNCHANGED <<nanoVars, combVars, pipeVars, boundsVars, wrapVars, procType, presVars, textVars,
                   confVars>>

\* Every constructor succeeded: return the result and a nil error.
CtorReturn ==
    /\ kPc = "ctor"
    /\ Len(kInvoked) = Len(kCtors)
    /\ kRet' = [input |-> Composite(kPipes), err |-> nil]
    /\ kPc' = "done"
    /\ UNCHANGED <<kCtors, kInvoked, kPipes, kConsume, kInCalls, kClosed, kErr>>
    /\ UNCHANGED <<nanoVars, combVars, pipeVars, boundsVars, wrapVars, procType, presVars, textVars,
                   confVars>>

\* ============================== the reader preserver (amazon_sqs input)
\* The deferred messages after the first of them was handed out again, were
\* it kept.
AfterResendKept(buf) == buf

\* The deferred messages after the first of them was handed out again.
AfterResend(buf) == Tail(buf)

\* An Error Response for message m: m is held for re-delivery.
DeferOnError(buf, m) == Append(buf, m)

\* The shell reads from the preserver, which hands out the deferred message if
\* there is one and reads from the underlying Reader if not, and delivers the
\* message as a Transaction.
PreserverRead ==
    /\ prPc = "read"
    /\ Len(prOut) < MaxDeliveries
    /\ IF prDeferred # <<>>
          THEN /\ prMsg' = Head(prDeferred)
               /\ prDeferred' = AfterResend(prDeferred)
               /\ prOut' = Append(prOut, [msg |-> Head(prDeferred),
                                          fromReader |-> FALSE])
               /\ UNCHANGED rdReads
          ELSE /\ rdReads' = rdReads + 1
               /\ prMsg' = rdReads + 1
               /\ prOut' = Append(prOut, [msg |-> rdReads + 1,
                                          fromReader |-> TRUE])
               /\ UNCHANGED prDeferred
    /\ prPc' = "respond"
    /\ UNCHANGED <<rdAcks, prRes>>
    /\ UNCHANGED <<nanoVars, combVars, pipeVars, boundsVars, wrapVars, procType,
                   ctorVars, textVars, confVars>>

\* The reply sink receives an Ack: the message is acknowledged to the Reader.
PreserverAck ==
    /\ prPc = "respond"
    /\ rdAcks' = Append(rdAcks, prMsg)
    /\ prRes' = Append(prRes, "ack")
    /\ prPc' = "read"
    /\ UNCHANGED <<rdReads, prDeferred, prMsg, prOut>>
    /\ UNCHANGED <<nanoVars, combVars, pipeVars, boundsVars, wrapVars, procType,
                   ctorVars, textVars, confVars>>

\* The reply sink receives an Error: the message is deferred.
PreserverError ==
    /\ prPc = "respond"
    /\ prDeferred' = DeferOnError(prDeferred, prMsg)
    /\ prRes' = Append(prRes, "err")
    /\ prPc' = "read"
    /\ UNCHANGED <<rdReads, rdAcks, prMsg, prOut>>
    /\ UNCHANGED <<nanoVars, combVars, pipeVars, boundsVars, wrapVars, procType,
                   ctorVars, textVars, confVars>>

\* ============================================== the text interpolator
\* A text is a sequence of atoms: the five characters the reference syntax is
\* made of, and words of name characters ([a-z_]).  Two adjacent words form one
\* longer run of name characters.
Words == {"echo", "count", "foo", "bar"}

\* [a-z_]
IsNameAtom(a) == a \in Words

\* The atoms of the texts given to the detector: the five characters and the
\* word echo.
TextAtoms == {"$", "{", "!", "}", ":", "echo"}

\* Every text of up to len atoms.
TextsUpTo(len) == UNION {[1..k -> TextAtoms] : k \in 0..len}

\* The texts given to the detector: every text of up to MaxTextLen atoms, and
\* every text that starts a reference to echo with an argument and goes on
\* with up to MaxArgTail atoms.
Texts ==
    TextsUpTo(MaxTextLen)
    \cup {<<"$", "{", "!", "echo", ":">> \o t : t \in TextsUpTo(MaxArgTail)}

\* The names of the functions: echo and count (the others read the clock, the
\* host or the message).
FunctionNames == {<<"echo">>, <<"count">>}

\* [a-z_]+ from position j on: the position of the last atom of the longest
\* run of name atoms that starts at j (j - 1 when there is none).
RECURSIVE NameEnd(_, _)
NameEnd(s, j) ==
    IF j <= Len(s) /\ IsNameAtom(s[j]) THEN NameEnd(s, j + 1) ELSE j - 1

\* [^}]+ from position j on: the position of the last atom of the longest run
\* without "}" that starts at j (j - 1 when there is none).
RECURSIVE ArgEnd(_, _)
ArgEnd(s, j) ==
    IF j <= Len(s) /\ s[j] # "}" THEN ArgEnd(s, j + 1) ELSE j - 1

\* An argument of any length, the empty one included.
ArgOkEmpty(from, to) == TRUE

\* The + of [^}]+ : the argument from..to has at least one atom.
ArgOk(from, to) == to >= from

\* The reference syntax ${!NAME} or ${!NAME:ARG} matched at position i: the
\* position of the closing "}", or 0 when there is no match at i.
MatchEnd(s, i) ==
    IF i + 2 <= Len(s) /\ s[i] = "$" /\ s[i + 1] = "{" /\ s[i + 2] = "!"
    THEN LET ne == NameEnd(s, i + 3)
         IN  IF ne < i + 3 \/ ne + 1 > Len(s) THEN 0
             ELSE IF s[ne + 1] = "}" THEN ne + 1
             ELSE IF s[ne + 1] = ":"
                  THEN LET ae == ArgEnd(s, ne + 2)
                       IN  IF ArgOk(ne + 2, ae) /\ ae + 1 <= Len(s)
                           THEN ae + 1 ELSE 0
                  ELSE 0
    ELSE 0

\* ContainsFunctionVariables(s): the syntax matches somewhere in s.
ContainsFunctionVariables(s) == \E i \in 1..Len(s) : MatchEnd(s, i) > 0

\* The name of a matched reference: what lies between "${!" and the first ":"
\* or, without one, the closing "}".
RefName(content) == SubSeq(content, 4, NameEnd(content, 4))

\* The argument of a matched reference: what lies between the first ":" and
\* the closing "}"; empty when there is no ":".
RefArg(content) == SubSeq(content, NameEnd(content, 4) + 2, Len(content) - 1)

\* The counter of key in the counters cs (0: there is none yet).
CounterOf(cs, key) ==
    IF \E p \in cs : p[1] = key
    THEN (CHOOSE p \in cs : p[1] = key)[2]
    ELSE 0

\* The next value of a counter shared by all keys.
NextCountShared(cs, key) ==
    IF cs = {} THEN 1
    ELSE 1 + (CHOOSE c \in {p[2] : p \in cs} : \A p \in cs : p[2] <= c)

\* count: the counter of the key starts at 1 and is incremented on each
\* expansion.
NextCount(cs, key) == CounterOf(cs, key) + 1

\* The decimal digits.
Digits == <<"0", "1", "2", "3", "4", "5", "6", "7", "8", "9">>

\* The decimal representation of the positive integer c.
RECURSIVE FormatInt(_)
FormatInt(c) ==
    IF c < 10 THEN <<Digits[c + 1]>>
    ELSE FormatInt(c \div 10) \o <<Digits[(c % 10) + 1]>>

\* A reference with an unrecognised name, were it replaced by nothing.
UnrecognisedDropped(content) == <<>>

\* A reference with an unrecognised name is replaced by itself.
Unrecognised(content) == content

\* The replacement of one matched reference, in the state st of the ongoing
\* ReplaceFunctionVariables call: [out, counters, exp].
Expand(content, st) ==
    LET name == RefName(content)
        arg == RefArg(content)
    IN  IF name = <<"echo">>
        THEN [st EXCEPT !.out = @ \o arg]
        ELSE IF name = <<"count">>
        THEN LET c == NextCount(st.counters, arg)
             IN  [out |-> st.out \o FormatInt(c),
                  counters |-> {p \in st.counters : p[1] # arg}
                               \cup {<<arg, c>>},
                  exp |-> Append(st.exp, [key |-> arg, out |-> FormatInt(c)])]
        ELSE [st EXCEPT !.out = @ \o Unrecognised(content)]

\* The replacement of every match in s from position i on, from left to
\* right, matches not overlapping.
RECURSIVE ReplaceFrom(_, _, _)
ReplaceFrom(s, i, st) ==
    IF i > Len(s) THEN st
    ELSE LET e == MatchEnd(s, i)
         IN  IF e = 0
             THEN ReplaceFrom(s, i + 1, [st EXCEPT !.out = Append(@, s[i])])
             ELSE ReplaceFrom(s, e + 1, Expand(SubSeq(s, i, e), st))

\* ReplaceFunctionVariables(msg, s) with the counters cs.
ReplaceFunctionVariables(s, cs) ==
    ReplaceFrom(s, 1, [out |-> <<>>, counters |-> cs, exp |-> <<>>])

\* One call of ContainsFunctionVariables and of ReplaceFunctionVariables on s.
Interpolate(s) ==
    LET r == ReplaceFunctionVariables(s, tCounters)
    IN  /\ tIn' = s
        /\ tCalls' = tCalls + 1
        /\ tContains' = ContainsFunctionVariables(s)
        /\ tOut' = r.out
        /\ tCounters' = r.counters
        /\ tExp' = tExp \o r.exp

\* The text chosen at the start is given to the detector and to the replacer.
TextCall ==
    /\ tCalls = 0
    /\ Interpolate(tIn)
    /\ UNCHANGED <<nanoVars, combVars, pipeVars, boundsVars, wrapVars, procType,
                   ctorVars, presVars, confVars>>

\* A reference to the counter of key.
CountRef(key) == <<"$", "{", "!", "count", ":", key, "}">>

\* The pieces the texts with counters are made of: references to the counters
\* foo and bar, and the word foo outside a reference.
CountPieces == {CountRef("foo"), CountRef("bar"), <<"foo", ":">>}

\* The concatenation of a sequence of texts.
RECURSIVE Concat(_)
Concat(ps) == IF ps = <<>> THEN <<>> ELSE Head(ps) \o Concat(Tail(ps))

\* The texts with counters: one to MaxPieces pieces.
CountTexts ==
    {Concat(ps) : ps \in UNION {[1..k -> CountPieces] : k \in 1..MaxPieces}}

\* The next text with counters is given to the detector and to the replacer.
CountCall ==
    /\ tCalls < MaxCountCalls
    /\ \E s \in CountTexts : Interpolate(s)
    /\ UNCHANGED <<nanoVars, combVars, pipeVars, boundsVars, wrapVars, procType,
                   ctorVars, presVars, confVars>>

\* ======================================= Config and its sanitisation
\* errors the sanitisation of a section can return
SanitiseErrs == {"errSanitise"}

\* processor.SanitiseConfig: the type and the subrecord the type names.
SanitiseProc(conf) ==
    [type |-> conf.type,
     sections |-> {q \in conf.sections : q[1] = conf.type}]

\* input.SanitiseConfig, output.SanitiseConfig, when they succeed: the type, the
\* sanitised processors and the subrecord the type names.
SanitiseSection(conf) ==
    [type |-> conf.type,
     processors |-> [i \in 1..Len(conf.processors) |->
                        SanitiseProc(conf.processors[i])],
     sections |-> {q \in conf.sections : q[1] = conf.type}]

\* What input.SanitiseConfig or output.SanitiseConfig returns for conf: the
\* sanitised section and a nil error, or nil and the error e.
SanitiseConfig(conf, e) ==
    IF e = nil THEN [res |-> SanitiseSection(conf), err |-> nil]
    ELSE [res |-> NilResult, err |-> e]

\* Sanitised that returns what it has when the input section fails.
SanitisedPartial(c, inRet, outRet) ==
    IF outRet.err # nil /\ inRet.err = nil
    THEN [res |-> NilResult, err |-> outRet.err]
    ELSE [res |-> [http |-> c.http, input |-> inRet.res, output |-> outRet.res],
          err |-> inRet.err]

\* Config.Sanitised(), given what the two SanitiseConfig calls return.
Sanitised(c, inRet, outRet) ==
    IF inRet.err # nil THEN [res |-> NilResult, err |-> inRet.err]
    ELSE IF outRet.err # nil THEN [res |-> NilResult, err |-> outRet.err]
    ELSE [res |-> [http |-> c.http, input |-> inRet.res, output |-> outRet.res],
          err |-> nil]

\* A processor configuration read back from a sanitised one: the subrecords
\* it lacks are at their defaults.
LoadProc(san) ==
    [type |-> san.type,
     sections |-> san.sections
                  \cup {<<t, "default">> : t \in ProcTypes \ {san.type}}]

\* An input or output configuration read back from a sanitised one.
LoadSection(san) ==
    [type |-> san.type,
     processors |-> [i \in 1..Len(san.processors) |->
                        LoadProc(san.processors[i])],
     sections |-> san.sections
                  \cup {<<t, "default">> : t \in ConfTypes \ {san.type}}]

\* The Config read back from a sanitised configuration: NewConfig() overlaid
\* with what the sanitised configuration holds.
LoadConfig(san) ==
    [http |-> san.http,
     input |-> LoadSection(san.input),
     output |-> LoadSection(san.output)]

\* c.Sanitised() is called; each of the two sections is sanitised or fails.
ConfSanitise ==
    /\ cCalls = 0
    /\ \E ein \in {nil} \cup SanitiseErrs, eout \in {nil} \cup SanitiseErrs :
          cRet' = Sanitised(cConf, SanitiseConfig(cConf.input, ein),
                            SanitiseConfig(cConf.output, eout))
    /\ cCalls' = 1
    /\ UNCHANGED <<cConf, cRet2>>
    /\ UNCHANGED <<nanoVars, combVars, pipeVars, boundsVars, wrapVars, procType,
                   ctorVars, presVars, textVars>>

\* The sanitised configuration is read back and sanitised again.
ConfSanitiseAgain ==
    /\ cCalls = 1
    /\ cRet.err = nil
    /\ LET c == LoadConfig(cRet.res)
       IN  \E ein \in {nil} \cup SanitiseErrs, eout \in {nil} \cup SanitiseErrs :
              cRet2' = Sanitised(c, SanitiseConfig(c.input, ein),
                                 SanitiseConfig(c.output, eout))
    /\ cCalls' = 2
    /\ UNCHANGED <<cConf, cRet>>
    /\ UNCHANGED <<nanoVars, combVars, pipeVars, boundsVars, wrapVars, procType,
                   ctorVars, presVars, textVars>>

\* ======================================================= specifications
NanoNext ==
    \/ UpstreamOffer
    \/ UpstreamClose
    \/ Consume
    \/ LoopCheck
    \/ LoopRecvTx
    \/ LoopRecvClosed
    \/ LoopRecvCloseChan
    \/ LoopSendPart
    \/ LoopSendEnd
    \/ LoopTally
    \/ LoopRespond
    \/ LoopRespondCloseChan
    \/ LoopDeferStore
    \/ LoopDeferClose
    \/ CloseAsyncCAS
    \/ CloseAsyncClose
    \/ WaitForClose

\* The Nanomsg output with its source and the callers of CloseAsync and
\* WaitForClose.
InitNanomsg == NanoInit /\ CombDefault /\ PipeInit /\ BoundsIdle /\ WrapIdle /\ ExtraIdle

SpecNanomsg == InitNanomsg /\ [][NanoNext]_vars

\* The steps of the loop goroutine while nobody closes anything.
LoopRun ==
    \/ LoopCheck
    \/ LoopRecvTx
    \/ LoopSendPart
    \/ LoopSendEnd
    \/ LoopTally

NanoLiveNext ==
    \/ UpstreamOffer
    \/ Consume
    \/ LoopRun
    \/ LoopRespond

\* The Nanomsg output when CloseAsync is never called and the upstream channel
\* stays open: the goroutine is scheduled, every Send returns, and the source
\* receives from the ResponseChan of each transaction it sent.
SpecNanomsgLive ==
    /\ InitNanomsg
    /\ [][NanoLiveNext]_vars
    /\ WF_vars(LoopRun)
    /\ WF_vars(LoopRespond)

CombNext == CombineCall

\* One Combine processor and the sequence of messages given to it.
InitCombine == NanoInit /\ CombInit /\ PipeInit /\ BoundsIdle /\ WrapIdle /\ ExtraIdle

SpecCombine == InitCombine /\ [][CombNext]_vars

PipeNext ==
    \/ PipeRecv
    \/ PipeForwardResponse
    \/ PipeEmit
    \/ DownstreamAck
    \/ DownstreamError

\* A pipeline hosting one Combine processor, its source and its downstream.
SpecPipeline == InitCombine /\ [][PipeNext]_vars

\* The steps of the loop goroutine, its ways out included, but for the
\* rendezvous on ts.ResponseChan, which needs the source.
LoopStep ==
    \/ LoopCheck
    \/ LoopRecvTx
    \/ LoopRecvClosed
    \/ LoopRecvCloseChan
    \/ LoopSendPart
    \/ LoopSendEnd
    \/ LoopTally
    \/ LoopRespondCloseChan
    \/ LoopDeferStore
    \/ LoopDeferClose

\* The output, its source and the callers of CloseAsync.
NanoFairNext ==
    \/ UpstreamOfferShut
    \/ UpstreamClose
    \/ Consume
    \/ LoopStep
    \/ LoopRespond
    \/ CloseAsyncCAS
    \/ CloseAsyncClose

\* The Nanomsg output under a scheduler: the goroutine runs whenever it can,
\* every Send returns, and a CloseAsync call that won the CAS goes on to close
\* closeChan.  The source is free never to send and never to receive.
SpecNanomsgFair ==
    /\ InitNanomsg
    /\ [][NanoFairNext]_vars
    /\ WF_vars(LoopStep)
    /\ WF_vars(CloseAsyncClose)

BoundsNext == BoundsCall

\* One BoundsCheck processor and the sequence of messages given to it.
InitBoundsCheck == NanoInit /\ CombDefault /\ PipeInit /\ BoundsInit /\ WrapIdle /\ ExtraIdle

SpecBoundsCheck == InitBoundsCheck /\ [][BoundsNext]_vars

WrapNext ==
    \/ WrapSend
    \/ WrapReply
    \/ WrapHandOn
    \/ WrapHandBack
    \/ WrapDeliver
    \/ WrapReaderAck
    \/ WrapReaderError
    \/ WrapCloseAsync
    \/ WrapCloseAsyncPipe
    \/ WrapPipeExit
    \/ WrapWaitForClose

\* An input wrapped with pipelines of mockProcs, its source, the reader of the
\* composite and the callers of its CloseAsync and WaitForClose.
InitWrap == NanoInit /\ CombDefault /\ PipeInit /\ BoundsIdle /\ WrapInit /\ ExtraIdle

SpecWrap == InitWrap /\ [][WrapNext]_vars

\* A caller hands the next message to the processor, a Combine.
ProcCombineCall == procType = "combine" /\ CombineCall

\* A caller hands the next message to the processor, a BoundsCheck.
ProcBoundsCall == procType = "bounds_check" /\ BoundsCall

ProcNext ==
    \/ ProcCombineCall
    \/ ProcBoundsCall

\* One processor, a Combine or a BoundsCheck of any configuration, and the
\* sequence of messages given to it.
InitProcessors ==
    /\ NanoInit
    /\ PipeInit
    /\ WrapIdle
    /\ CtorIdle
    /\ PresInit
    /\ TextIdle
    /\ ConfIdle
    /\ \/ procType = "combine" /\ CombInit /\ BoundsIdle
       \/ procType = "bounds_check" /\ CombDefault /\ BoundsInit

SpecProcessors == InitProcessors /\ [][ProcNext]_vars

CtorNext ==
    \/ CtorOk
    \/ CtorFail
    \/ CtorConsume
    \/ CtorCloseBuilt
    \/ CtorReturnErr
    \/ CtorReturn

\* One call of WrapWithPipelines on a mockInput, with any constructors.
InitWrapCtor ==
    /\ NanoInit
    /\ CombDefault
    /\ PipeInit
    /\ BoundsIdle
    /\ WrapIdle
    /\ ProcIdle
    /\ CtorInit
    /\ PresInit
    /\ TextIdle
    /\ ConfIdle

SpecWrapCtor == InitWrapCtor /\ [][CtorNext]_vars

PresNext ==
    \/ PreserverRead
    \/ PreserverAck
    \/ PreserverError

\* A reader preserver, the Reader under it and the shell that delivers its
\* messages and receives the Responses.
InitPreserver ==
    /\ NanoInit
    /\ CombDefault
    /\ PipeInit
    /\ BoundsIdle
    /\ WrapIdle
    /\ ProcIdle
    /\ CtorIdle
    /\ PresInit
    /\ TextIdle
    /\ ConfIdle

SpecPreserver == InitPreserver /\ [][PresNext]_vars

TextNext == TextCall

\* The interpolator and one text, any of Texts, given to it.
InitText ==
    /\ NanoInit
    /\ CombDefault
    /\ PipeInit
    /\ BoundsIdle
    /\ WrapIdle
    /\ ProcIdle
    /\ CtorIdle
    /\ PresInit
    /\ tIn \in Texts
    /\ TextFields
    /\ ConfIdle

SpecText == InitText /\ [][TextNext]_vars

CountNext == CountCall

\* The interpolator and a sequence of texts with counters given to it.
InitCount ==
    /\ NanoInit
    /\ CombDefault
    /\ PipeInit
    /\ BoundsIdle
    /\ WrapIdle
    /\ ProcIdle
    /\ CtorIdle
    /\ PresInit
    /\ TextIdle
    /\ ConfIdle

SpecCount == InitCount /\ [][CountNext]_vars

ConfNext ==
    \/ ConfSanitise
    \/ ConfSanitiseAgain

\* A configuration, any of Configs, and the calls that sanitise it.
InitConfig ==
    /\ NanoInit
    /\ CombDefault
    /\ PipeInit
    /\ BoundsIdle
    /\ WrapIdle
    /\ ProcIdle
    /\ CtorIdle
    /\ PresInit
    /\ TextIdle
    /\ cConf \in Configs
    /\ ConfFields

SpecConfig == InitConfig /\ [][ConfNext]_vars

\* =============================================================== claims
Range(s) == {s[i] : i \in 1..Len(s)}

\* ---- Nanomsg output
\* Ids of the transactions the loop received.
ReceivedIds == {received[i].id : i \in 1..Len(received)}

\* The socket Sends made for transaction t, in order.
Attempts(t) == SelectSeq(sock, LAMBDA a : a.tx = t)

\* Some Send of the attempts A failed.
Failed(A) == \E j \in 1..Len(A) : A[j].res # "ok"

\* C1 (as claimed): once the loop has exited after CloseAsync closed closeChan
\* (closedChan is closed), every transaction the loop received has been sent a
\* response on its ResponseChan; none is left without one.
C1_ReplyBeforeClosed ==
    (closedChan > 0 /\ closeChan > 0) =>
        \A i \in 1..Len(received) : responses[received[i].id] # <<>>

\* C2: at most one response is ever sent on a transaction's ResponseChan, and
\* none on the ResponseChan of a transaction the loop has not received.
C2_AtMostOneReply ==
    \A t \in 1..MaxTx :
        /\ Len(responses[t]) <= 1
        /\ responses[t] # <<>> => t \in ReceivedIds

\* C2 witness: two transactions were answered, one after a failed Send, and
\* CloseAsync has closed closeChan.
C2_Witness ==
    /\ Len(received) >= 2
    /\ responses[received[1].id] # <<>>
    /\ responses[received[2].id] # <<>>
    /\ \E a \in Range(sock) : a.res # "ok"
    /\ closeChan > 0

\* Every transaction received before the latest one has exactly one response,
\* and the latest has at most one.
OneInFlight ==
    \A i \in 1..Len(received) :
        /\ Len(responses[received[i].id]) <= 1
        /\ i < Len(received) => Len(responses[received[i].id]) = 1

\* C3: with no CloseAsync, an open upstream and a source that receives its
\* responses, every transaction the loop received eventually has exactly one
\* response, and it has it before the loop receives the next transaction.
C3_ReplyBeforeNext ==
    /\ []OneInFlight
    /\ \A t \in 1..MaxTx : (t \in ReceivedIds) ~> (Len(responses[t]) = 1)

\* C3 witness: the loop received several transactions and each has its response.
C3_Witness ==
    /\ Len(received) >= 2
    /\ \A i \in 1..Len(received) : Len(responses[received[i].id]) = 1
    /\ pc = "recv"

\* The i-th received transaction is past the counters of its iteration.
Tallied(i) == i < Len(received) \/ pc \notin {"send", "tally"}

\* C4: the parts of a received transaction go to the socket in part order and
\* stop at the first failed Send; the response is the Ack iff every part was
\* sent successfully and otherwise carries the error of the failed Send; each
\* transaction increments exactly one of send.error and send.success.
C4_ResponseValue ==
    /\ \A i \in 1..Len(received) :
          LET t == received[i]
              A == Attempts(t.id)
              k == Len(A)
          IN  /\ k <= Len(t.Payload)
              /\ \A j \in 1..k : A[j].part = t.Payload[j]
              /\ \A j \in 1..(k - 1) : A[j].res = "ok"
              /\ \A r \in Range(responses[t.id]) :
                    /\ ~r.skipAck
                    /\ (r.err = nil) <=> (k = Len(t.Payload) /\ ~Failed(A))
                    /\ r.err # nil => (k >= 1 /\ r.err = A[k].res)
    /\ mSendErr = Cardinality({i \in 1..Len(received) :
                       Tallied(i) /\ Failed(Attempts(received[i].id))})
    /\ mSendSucc = Cardinality({i \in 1..Len(received) :
                       Tallied(i) /\ ~Failed(Attempts(received[i].id))})

\* C4 witness: a two-part transaction whose first Send failed was answered with
\* that error, and another two-part transaction was answered with the Ack.
C4_Witness ==
    \E i, j \in 1..Len(received) :
        /\ Len(received[i].Payload) = 2
        /\ Len(Attempts(received[i].id)) = 1
        /\ responses[received[i].id] = <<NewError("errSendB")>>
        /\ Len(received[j].Payload) = 2
        /\ responses[received[j].id] = <<NewAck>>
        /\ mSendErr = 1
        /\ mSendSucc >= 1

\* ---- Combine
\* Every message given to Combine so far has at most n parts.
AllSmall == \A i \in 1..Len(inputs) : Len(inputs[i].parts) <= n

\* The parts of a sequence of messages, concatenated.
RECURSIVE Flatten(_)
Flatten(msgs) ==
    IF msgs = <<>> THEN <<>> ELSE Head(msgs).parts \o Flatten(Tail(msgs))

\* The input messages that have a part in msg.
Contributors(msg) == {p[1] : p \in Range(msg.parts)}

\* C5 (as claimed): when every input has at most n parts, every emitted message
\* has exactly n parts.
C5_ExactlyP ==
    AllSmall => \A j \in 1..Len(emitted) : Len(emitted[j].parts) = n

\* C5 (amended): when every input has at most n parts, every emitted message
\* has at least n and at most 2n-1 parts.
C5_BatchSizeRange ==
    AllSmall =>
        \A j \in 1..Len(emitted) :
            /\ Len(emitted[j].parts) >= n
            /\ Len(emitted[j].parts) <= 2 * n - 1

\* C5 witness: inputs of at most n parts produced a batch of more than n parts.
C5_Witness ==
    /\ AllSmall
    /\ \E j \in 1..Len(emitted) : Len(emitted[j].parts) > n

\* The j-th emitted message is a batch built from the buffer (its parts come
\* from messages of at most n parts), not an oversize message passed through.
IsBatch(j) == \A i \in Contributors(emitted[j]) : Len(inputs[i].parts) <= n

\* C6: an input message is never split: every part of a message that
\* contributes to an emitted message is in that emitted message; a batch built
\* from messages of at most n parts therefore has between n and 2n-1 parts.
C6_Overshoot ==
    \A j \in 1..Len(emitted) :
        /\ \A i \in Contributors(emitted[j]) :
              Range(inputs[i].parts) \subseteq Range(emitted[j].parts)
        /\ IsBatch(j) => Len(emitted[j].parts) \in n..(2 * n - 1)

\* C6 witness: the documented example, threshold 4, a 2-part message followed by
\* a 3-part message gives one 5-part output.
C6_Witness ==
    /\ n = 4
    /\ Len(inputs) = 2
    /\ Len(inputs[1].parts) = 2
    /\ Len(inputs[2].parts) = 3
    /\ Len(emitted) = 1
    /\ emitted[1].parts = inputs[1].parts \o inputs[2].parts
    /\ Len(emitted[1].parts) = 5

\* C7: with inputs of at most n parts, the parts emitted so far followed by
\* the buffer are the parts of the inputs so far, in input order.
C7_Conservation ==
    AllSmall => Flatten(emitted) \o parts = Flatten(inputs)

\* C7 witness: two batches were emitted, one of them larger than n, and parts
\* of a later input wait in the buffer.
C7_Witness ==
    /\ AllSmall
    /\ Len(emitted) >= 2
    /\ \E j \in 1..Len(emitted) : Len(emitted[j].parts) > n
    /\ parts # <<>>

\* C9: a call with a message of at most n parts appends its parts to the
\* buffer; if the buffer then holds n parts or more, the call returns one message
\* holding the whole buffer and no Response and empties the buffer; otherwise
\* it returns no message and the SkipAck and keeps the appended parts.
C9_Step ==
    [][(Len(inputs') = Len(inputs) + 1 /\ Len(inputs'[Len(inputs')].parts) <= n) =>
          LET buf == parts \o inputs'[Len(inputs')].parts
          IN  IF Len(buf) >= n
                 THEN /\ Len(retMsgs') = 1
                      /\ retMsgs'[1].parts = buf
                      /\ retRes' = NoRes
                      /\ parts' = <<>>
                 ELSE /\ retMsgs' = <<>>
                      /\ retRes' = NewUnack
                      /\ parts' = buf]_vars

\* C9 witness: a call returned a batch made of buffered parts and its own parts,
\* and an earlier call returned the SkipAck.
C9_Witness ==
    /\ Len(inputs) >= 2
    /\ Len(inputs[Len(inputs)].parts) <= n
    /\ Len(retMsgs) = 1
    /\ retRes = NoRes
    /\ Len(retMsgs[1].parts) > Len(inputs[Len(inputs)].parts)
    /\ parts = <<>>
    /\ cmDropped >= 1

\* C10: a call with a message of more than n parts returns that very message
\* and no Response, adds 1 to warning.too_many_parts and leaves the buffer as
\* it was.
C10_PassThrough ==
    [][(Len(inputs') = Len(inputs) + 1 /\ Len(inputs'[Len(inputs')].parts) > n) =>
          /\ retMsgs' = <<inputs'[Len(inputs')]>>
          /\ retRes' = NoRes
          /\ cmWarnParts' = cmWarnParts + 1
          /\ parts' = parts]_vars

\* C10 witness: an oversize message was passed through while parts of an earlier
\* message were, and still are, in the buffer.
C10_Witness ==
    /\ Len(inputs) >= 2
    /\ Len(inputs[Len(inputs)].parts) > n
    /\ emitted = <<inputs[Len(inputs)]>>
    /\ parts = inputs[1].parts
    /\ parts # <<>>
    /\ cmWarnParts = 1

\* ---- pipeline hosting Combine
\* The downstream answered the j-th downstream message with the Ack.
Acked(j) == j <= Len(downRes) /\ downRes[j] = NewAck

\* The last input message with a part in msg: the one whose call emitted it.
LastOf(msg) == CHOOSE t \in Contributors(msg) : \A u \in Contributors(msg) : u <= t

\* Upstream transactions whose message completed a downstream message.
Triggers == {LastOf(down[j]) : j \in 1..Len(down)}

\* Those whose downstream message has been answered with the Ack.
AckedTriggers == {LastOf(down[j]) : j \in {i \in 1..Len(down) : Acked(i)}}

\* C8 (as claimed): once the downstream has answered a combined message with the
\* Ack, the reply sink of every upstream transaction combined into it has
\* received the Ack.
C8_AckOnAll ==
    \A j \in 1..Len(down) :
        Acked(j) => \A t \in Contributors(down[j]) : NewAck \in Range(pReplies[t])

\* C8 (amended): every reply sink receives at most one response; the reply sink
\* of a transaction that was only buffered receives the SkipAck (never the
\* downstream's Ack or Error); the reply sink of the transaction that completed
\* a downstream message receives no Ack and no SkipAck before the downstream
\* answers with the Ack, and then receives that Ack.
C8_AckFanOut ==
    \A t \in 1..Len(inputs) :
        /\ Len(pReplies[t]) <= 1
        /\ t \in AckedTriggers => pReplies[t] = <<NewAck>>
        /\ t \in Triggers \ AckedTriggers =>
              /\ NewAck \notin Range(pReplies[t])
              /\ NewUnack \notin Range(pReplies[t])
        /\ t \notin Triggers =>
              \/ pReplies[t] = <<NewUnack>>
              \/ t = pTran.id /\ pPc \in {"respond", "emit"} /\ pReplies[t] = <<>>

\* C8 witness: scenario S1 with parts = 2 and three one-part messages: the
\* downstream received exactly one message, [a, b], and answered the Ack; the
\* reply sinks hold SkipAck, Ack, SkipAck.
C8_Witness ==
    /\ n = 2
    /\ Len(inputs) = 3
    /\ \A i \in 1..3 : Len(inputs[i].parts) = 1
    /\ Len(down) = 1
    /\ down[1].parts = <<<<1, 1>>, <<2, 1>>>>
    /\ downRes = <<NewAck>>
    /\ pReplies[1] = <<NewUnack>>
    /\ pReplies[2] = <<NewAck>>
    /\ pReplies[3] = <<NewUnack>>

\* ---------------------------------------------------------------- C11
\* C11: a batch that Combine emits carries exactly the metadata of the last
\* input message that contributed parts to it, and that message is the one
\* whose call emitted the batch; metadata of earlier contributors and of
\* messages passed through in between is not carried.
C11_BatchMetadata ==
    /\ \A j \in 1..Len(emitted) :
          IsBatch(j) => emitted[j].meta = inputs[LastOf(emitted[j])].meta
    /\ (retMsgs # <<>> /\ IsBatch(Len(emitted)))
          => LastOf(retMsgs[1]) = Len(inputs)

\* A batch of several contributors, an earlier one of which had metadata
\* other than the batch's, with a message passed through in between.
C11_Witness ==
    \E j \in 1..Len(emitted) :
        /\ IsBatch(j)
        /\ \E i \in Contributors(emitted[j]) : inputs[i].meta # emitted[j].meta
        /\ \E k \in 1..Len(inputs) :
              /\ TooManyParts(inputs[k])
              /\ \E i \in Contributors(emitted[j]) : i < k
              /\ k < LastOf(emitted[j])
              /\ inputs[k].meta # emitted[j].meta

\* ---------------------------------------------------------------- C12
\* The message is within all four bounds of the configuration.
InBounds(msg) ==
    /\ bConf.MinParts <= Len(msg)
    /\ Len(msg) <= bConf.MaxParts
    /\ \A i \in 1..Len(msg) :
          bConf.MinPartSize <= msg[i] /\ msg[i] <= bConf.MaxPartSize

\* C12: BoundsCheck.ProcessMessage(msg) returns exactly [msg] and no Response
\* if and only if min_parts <= the number of parts <= max_parts and every
\* part's size is within min_part_size..max_part_size; otherwise it returns
\* no message and Ack, never Error or SkipAck.
C12_BoundsVerdict ==
    bCount > 0 =>
        IF InBounds(bMsg)
           THEN bRetMsgs = <<bMsg>> /\ bRetRes = NoRes
           ELSE bRetMsgs = <<>> /\ bRetRes = NewAck

\* A message with an allowed number of parts is dropped with Ack for a part
\* below min_part_size alone, after a message was let through.
C12_Witness ==
    /\ bSent > 0
    /\ bRetMsgs = <<>>
    /\ bRetRes = NewAck
    /\ bConf.MinParts <= Len(bMsg)
    /\ Len(bMsg) <= bConf.MaxParts
    /\ \A i \in 1..Len(bMsg) : bMsg[i] <= bConf.MaxPartSize
    /\ \E i \in 1..Len(bMsg) : bMsg[i] < bConf.MinPartSize

\* ---------------------------------------------------------------- C13
\* What a call that drops its message does to the counters.
C13_Drop ==
    (bCount' = bCount + 1 /\ bRetMsgs' = <<>>) =>
        /\ bDropped' = bDropped + 1
        /\ bSent' = bSent
        /\ bSentParts' = bSentParts
        /\ IF Len(bMsg') < bConf.MinParts
              THEN /\ bDroppedEmpty' = bDroppedEmpty + 1
                   /\ UNCHANGED <<bDroppedNumParts, bDroppedPartSize>>
              ELSE IF Len(bMsg') > bConf.MaxParts
                      THEN /\ bDroppedNumParts' = bDroppedNumParts + 1
                           /\ UNCHANGED <<bDroppedEmpty, bDroppedPartSize>>
                      ELSE /\ bDroppedPartSize' = bDroppedPartSize + 1
                           /\ UNCHANGED <<bDroppedEmpty, bDroppedNumParts>>

\* C13: every dropped message increments `dropped` by one and exactly one
\* reason counter, chosen with the precedence part count below min_parts,
\* else part count above max_parts, else a part size out of bounds; the sent
\* counters do not move on a drop; and after any sequence of calls
\* count = sent + dropped and dropped is the sum of the three reason counters.
C13_DropAccounting ==
    /\ [][C13_Drop]_vars
    /\ [](bCount = bSent + bDropped)
    /\ [](bDropped = bDroppedEmpty + bDroppedNumParts + bDroppedPartSize)

\* Drops for each of the three reasons have happened, the last one of a
\* message that has too many parts and a part of a size out of bounds.
C13_Witness ==
    /\ bDroppedEmpty > 0
    /\ bDroppedPartSize > 0
    /\ bDroppedNumParts > 0
    /\ Len(bMsg) > bConf.MaxParts
    /\ PartOutOfBounds(bMsg)
    /\ bRetMsgs = <<>>

\* ---------------------------------------------------------------- C14
\* The position of the first processor of the chain that returns a Response
\* for message m, 0 when none does.
FirstHit(chain, m) ==
    IF \E k \in 1..Len(chain) : chain[k] = m
       THEN CHOOSE k \in 1..Len(chain) :
                chain[k] = m /\ \A l \in 1..(k - 1) : chain[l] # m
       ELSE 0

\* The first pipeline with a processor that returns a Response for message m,
\* 0 when there is none.
Stopper(m) ==
    IF \E i \in 1..wN : FirstHit(wProcs[i], m) > 0
       THEN CHOOSE i \in 1..wN :
                /\ FirstHit(wProcs[i], m) > 0
                /\ \A l \in 1..(i - 1) : FirstHit(wProcs[l], m) = 0
       ELSE 0

\* Transaction t has been sent downstream of the last pipeline.
Delivered(t) == \E j \in 1..Len(wDown) : wDown[j].id = t

\* C14: when a processor of a pipeline's chain returns a Response (SkipAck)
\* for upstream transaction t, that Response reaches t's reply sink, the
\* processors after it are not run for t and nothing is emitted downstream
\* for t; a Response of a later pipeline travels back through the earlier
\* pipelines to the source's reply sink unchanged.
C14_ForwardResponse ==
    \A t \in 1..Len(wSent) :
        LET m == wSent[t]
            i == Stopper(m)
        IN  i > 0 =>
              /\ ~Delivered(t)
              /\ wReplies[t] \in {<<>>, <<NewUnack>>}
              /\ t < Len(wSent) => wReplies[t] = <<NewUnack>>
              /\ \A k \in 1..wN :
                    wTran[k].id = t =>
                       /\ k <= i
                       /\ k = i => /\ wRan[k] = FirstHit(wProcs[k], m)
                                   /\ wRes[k] = NewUnack
                                   /\ wPc[k] \in {"respond", "recv", "closed"}
                       /\ (k < i /\ wPc[k] = "respond") => wRes[k] = NewUnack

\* The first of two processors of the second pipeline gave the SkipAck, and
\* the source has received it.
C14_Witness ==
    \E t \in 1..Len(wSent) :
        /\ wN = 2
        /\ Stopper(wSent[t]) = 2
        /\ Len(wProcs[2]) = 2
        /\ FirstHit(wProcs[2], wSent[t]) = 1
        /\ wReplies[t] = <<NewUnack>>

\* ---------------------------------------------------------------- C15
\* The reader of the composite has just answered with an Error.
ErrorAnswered ==
    /\ Len(wDownRes') = Len(wDownRes) + 1
    /\ wDownRes'[Len(wDownRes')].err # nil

\* The answer to the last transaction sent downstream was an Error.
LastWasError ==
    /\ Len(wDown) > 0
    /\ Len(wDownRes) = Len(wDown)
    /\ wDownRes[Len(wDownRes)].err # nil

\* C15: when the downstream answers a transaction emitted for upstream
\* transaction t with an Error, the pipeline delivers nothing to t's reply
\* sink and emits the same message downstream again; t's reply sink gets a
\* response only for a downstream answer that is a non-error Ack, and that
\* response is a non-error Ack.
C15_RetryOnError ==
    /\ [][ErrorAnswered =>
             /\ wReplies' = wReplies
             /\ wRes' = wRes
             /\ wPc'[wN] = "emit"
             /\ wTran'[wN] = wDown[Len(wDown)]]_vars
    /\ [][(LastWasError /\ Len(wDown') = Len(wDown) + 1) =>
             wDown'[Len(wDown')] = wDown[Len(wDown)]]_vars
    /\ [](\A t \in 1..Len(wSent) :
             (Delivered(t) /\ wReplies[t] # <<>>) =>
                /\ wReplies[t] = <<NewAck>>
                /\ \E j \in 1..Len(wDownRes) :
                      wDown[j].id = t /\ wDownRes[j] = NewAck)

\* A message was answered with an Error, emitted again, answered with Ack,
\* and the source has received the Ack, through two pipelines.
C15_Witness ==
    /\ wN = 2
    /\ Len(wDownRes) >= 2
    /\ wDownRes[1].err # nil
    /\ wDown[2] = wDown[1]
    /\ wDownRes[2] = NewAck
    /\ wReplies[wDown[1].id] = <<NewAck>>

\* ---------------------------------------------------------------- C16
\* C16, as stated: t's reply sink receives the aggregate of the downstream
\* responses, Ack only when every downstream response is Ack, and otherwise
\* the first Error that was received (here: by the time the pipeline has
\* emitted anything further downstream).
C16_Aggregate ==
    \A j \in 1..Len(wDownRes) :
        LET t == wDown[j].id
        IN  /\ wReplies[t] = <<NewAck>> => wDownRes[j] = NewAck
            /\ (wDownRes[j].err # nil /\ j < Len(wDown)
                   /\ \A l \in 1..(j - 1) : wDown[l].id # t)
                  => wReplies[t] = <<wDownRes[j]>>

\* C16, amended: the message the chain yields for t is emitted downstream, and
\* t's reply sink receives Ack if and only if a downstream response to it is
\* a non-error Ack; a downstream Error never reaches t's reply sink (the
\* message is emitted again instead).
C16_AckOnSuccess ==
    \A t \in 1..Len(wSent) :
        /\ Len(wReplies[t]) <= 1
        /\ \A l \in 1..Len(wReplies[t]) : wReplies[t][l].err = nil
        /\ (Stopper(wSent[t]) = 0 /\ t < Len(wSent)) => Delivered(t)
        /\ wReplies[t] = <<NewAck>> =>
              \E j \in 1..Len(wDownRes) : wDown[j].id = t /\ wDownRes[j] = NewAck
        /\ (t < Len(wSent)
               /\ \E j \in 1..Len(wDownRes) : wDown[j].id = t /\ wDownRes[j] = NewAck)
              => wReplies[t] = <<NewAck>>

\* A transaction answered Error and then Ack has its Ack, and the source has
\* sent the next transaction.
C16_Witness ==
    \E t \in 1..Len(wSent) :
        /\ t < Len(wSent)
        /\ wReplies[t] = <<NewAck>>
        /\ \E j \in 1..Len(wDownRes) : wDown[j].id = t /\ wDownRes[j].err # nil

\* ---------------------------------------------------------------- C20
\* C20: CloseAsync on the composite input calls CloseAsync on the wrapped
\* input first and then on p1, ..., pn in that order, each exactly once, so
\* that after the call the input and every pipeline have been closed; and
\* WaitForClose on the composite returns nil only once the pipelines have
\* stopped, the last one included.
C20_Cascade ==
    /\ Len(wCloseCalls) <= wN + 1
    /\ \A j \in 1..Len(wCloseCalls) : wCloseCalls[j] = j - 1
    /\ (~wClosing /\ wCloseCalls # <<>>) => \A c \in 0..wN : CloseCalled(c)
    /\ wWaitRet = "nil" => wPc[wN] = "closed"
    /\ (wWaitRet = "nil" /\ wCloseCalls # <<>> /\ ~wClosing)
          => \A i \in 1..wN : wPc[i] = "closed" \/ CloseCalled(i)

\* CloseAsync on a composite of two pipelines has returned, both pipelines
\* have stopped while a transaction was in flight, and WaitForClose returned
\* nil.
C20_Witness ==
    /\ wN = 2
    /\ ~wClosing
    /\ wCloseCalls = <<0, 1, 2>>
    /\ \A i \in 1..wN : wPc[i] = "closed"
    /\ wWaitRet = "nil"
    /\ Len(wSent) > 0
    /\ wReplies[Len(wSent)] = <<>>

\* ---------------------------------------------------------------- C17
\* The fields of the output and of its loop other than what Consume returned.
NanoButConsumeRet ==
    <<running, transactions, closeChan, closedChan, socketClosed, pc, ts, idx,
      err, closing, waitRet, mRunning, mCount, mSendErr, mSendSucc, upOpen,
      offer, nextId, received, sock, responses>>

NanoButWaitRet ==
    <<running, transactions, closeChan, closedChan, socketClosed, pc, ts, idx,
      err, closing, consumeRet, mRunning, mCount, mSendErr, mSendSucc, upOpen,
      offer, nextId, received, sock, responses>>

\* C18: WaitForClose returns nil only if closedChan is closed, and ErrTimeout
\* otherwise; it changes nothing of the output; and when it has returned nil,
\* running is 0, the socket is closed, the loop is over, and from then on no
\* transaction is received, no part sent to the socket and no response sent.
C18_WaitForClose ==
    /\ [](waitRet \in {"none", "nil", "ErrTimeout"})
    /\ [](waitRet = "nil" =>
             closedChan > 0 /\ running = 0 /\ socketClosed /\ pc = "done")
    /\ [][waitRet' # waitRet => UNCHANGED NanoButWaitRet]_vars
    /\ [][(waitRet' # waitRet /\ closedChan = 0) => waitRet' = "ErrTimeout"]_vars
    /\ [][waitRet = "nil" => UNCHANGED <<received, sock, responses, pc>>]_vars

\* WaitForClose returned nil on an output that had sent parts and was closed with a response not handed over.
C18_Witness ==
    /\ waitRet = "nil"
    /\ Len(sock) > 0
    /\ Len(received) > 0
    /\ responses[received[Len(received)].id] = <<>>

\* ---------------------------------------------------------------- C19
\* C19, as stated: on an output whose loop was started, once CloseAsync has
\* been called (running is 0) or the upstream channel is closed, the loop
\* eventually exits and closes closedChan, whatever the source does.
C19_ShutdownCompletes ==
    (pc # "none" /\ (running = 0 \/ ~upOpen)) ~> (closedChan > 0)

\* C19, amended: once CloseAsync has been called the loop eventually exits and
\* closes closedChan, whatever the source does; once the upstream channel is
\* closed it does so too, unless it stays blocked for ever handing over the
\* response of the transaction in flight (the select on ts.ResponseChan has
\* a case for closeChan but none for the closure of the upstream channel).
C19_CloseCompletes ==
    /\ (pc # "none" /\ running = 0) ~> (closedChan > 0)
    /\ [](pc # "none" /\ ~upOpen => <>(closedChan > 0 \/ [](pc = "respond")))

\* closedChan has been closed after CloseAsync, with the upstream channel
\* open and the response of the transaction in flight never handed over.
C19_Witness ==
    /\ closedChan > 0
    /\ closeChan > 0
    /\ upOpen
    /\ Len(received) > 0
    /\ responses[received[Len(received)].id] = <<>>

\* ---------------------------------------------------------------- C30
\* The message of the last ProcessMessage call on the Combine processor.
LastInput == inputs[Len(inputs)]

\* C30: after every ProcessMessage call the buffer holds fewer than n parts;
\* the SkipAck is returned only when the buffer is not empty or the message had
\* no parts; the buffer is empty right after every emission of a batch.
C30_BufferBound ==
    /\ Len(parts) < n
    /\ (cmCount > 0 /\ retRes = NewUnack) =>
          (parts # <<>> \/ Len(LastInput.parts) = 0)
    /\ (cmCount > 0 /\ retMsgs # <<>> /\ ~TooManyParts(LastInput)) =>
          parts = <<>>

\* C30 witness: a batch larger than n was emitted and emptied the buffer, after
\* a SkipAck for a message without parts and an oversize message passed through
\* over a non-empty buffer.
C30_Witness ==
    /\ Len(inputs) >= 3
    /\ \E i \in 1..Len(inputs) : Len(inputs[i].parts) = 0
    /\ cmWarnParts >= 1
    /\ ~TooManyParts(LastInput)
    /\ Len(retMsgs) = 1
    /\ Len(retMsgs[1].parts) > n
    /\ parts = <<>>

\* ---------------------------------------------------------------- C29
\* C29: every ProcessMessage call of Combine and of BoundsCheck returns either
\* exactly one message and no Response, or no message and a Response; that
\* Response is the SkipAck for Combine and the Ack for BoundsCheck.
C29_ReturnShape ==
    /\ cmCount > 0 =>
          \/ Len(retMsgs) = 1 /\ retRes = NoRes
          \/ retMsgs = <<>> /\ retRes = NewUnack
    /\ bCount > 0 =>
          \/ Len(bRetMsgs) = 1 /\ bRetRes = NoRes
          \/ bRetMsgs = <<>> /\ bRetRes = NewAck

\* C29 witness (Combine): calls have returned a message without a Response and,
\* last, a SkipAck without a message.
C29_Witness ==
    /\ cmSent >= 1
    /\ retMsgs = <<>>
    /\ retRes = NewUnack

\* C29 (BoundsCheck): calls have returned a message without a Response and,
\* last, an Ack without a message.
C29_WitnessBounds ==
    /\ bSent >= 1
    /\ bRetMsgs = <<>>
    /\ bRetRes = NewAck

\* ---------------------------------------------------------------- C21
\* The WrapWithPipelines call has returned.
CtorDone == kPc = "done" /\ kRet # NoCtorRet

\* C21: when every constructor succeeds for n >= 1 pipelines, the first
\* pipeline was told to consume the input's TransactionChan and every later
\* one its predecessor's, each exactly once, and the TransactionChan of the
\* returned composite is the last pipeline's; no pipeline is ever told to
\* consume twice.
C21_Splice ==
    /\ \A a, b \in 1..Len(kConsume) : kConsume[a].pipe = kConsume[b].pipe => a = b
    /\ (CtorDone /\ kRet.err = nil /\ Len(kCtors) >= 1) =>
          /\ kConsume = [i \in 1..Len(kCtors) |-> [pipe |-> i, ts |-> i - 1]]
          /\ kRet.input.ts = Len(kCtors)
          /\ kRet.input.ts # MockIn.ts

\* C21 witness: a call with at least two constructors returned a composite.
C21_Witness ==
    /\ CtorDone
    /\ kRet.err = nil
    /\ Len(kCtors) >= 2
    /\ Len(kConsume) = Len(kCtors)

\* ---------------------------------------------------------------- C22
\* The index of the first constructor that returns an error (0: there is none).
FirstFailing ==
    IF \E i \in 1..Len(kCtors) : kCtors[i] # "ok"
    THEN CHOOSE i \in 1..Len(kCtors) :
            /\ kCtors[i] # "ok"
            /\ \A j \in 1..(i - 1) : kCtors[j] = "ok"
    ELSE 0

\* C22: when the i-th constructor fails, the call returns that constructor's
\* error and a nil Input, every pipeline constructed before it has been closed
\* by then, and no constructor after the i-th is ever invoked.
C22_CtorFailure ==
    /\ FirstFailing > 0 => \A j \in Range(kInvoked) : j <= FirstFailing
    /\ (CtorDone /\ FirstFailing > 0) =>
          /\ kRet.err = kCtors[FirstFailing]
          /\ kRet.input = NilInput
          /\ Range(kClosed) = 1..(FirstFailing - 1)
          /\ kInvoked = [j \in 1..FirstFailing |-> j]

\* C22 witness: the third constructor failed after two pipelines were built,
\* and the call has returned.
C22_Witness ==
    /\ CtorDone
    /\ FirstFailing = 3
    /\ kRet.err \in CtorErrs
    /\ Len(kPipes) = 2
    /\ Len(kClosed) = 2

\* ---------------------------------------------------------------- C23
\* C23: a call without constructors returns a nil error and the very input it
\* was given, and calls no method of that input.
C23_ZeroPipelines ==
    kCtors = <<>> =>
        /\ kInCalls = <<>>
        /\ CtorDone => kRet = [input |-> MockIn, err |-> nil]

\* C23 witness: a call without constructors has returned.
C23_Witness ==
    /\ kCtors = <<>>
    /\ CtorDone
    /\ kRet.input = MockIn

\* ---------------------------------------------------------------- C24
\* C24: after an Error for a delivered message the next read returns that
\* message again without a call of the underlying Reader, and so on until it
\* is answered with an Ack; after an Ack the next read calls the Reader; the
\* preserver never holds more than one deferred message.
C24_PreserverRetry ==
    /\ Len(prDeferred) <= 1
    /\ rdReads = Cardinality({j \in 1..Len(prOut) : prOut[j].fromReader})
    /\ \A j \in 2..Len(prOut) :
          IF prRes[j - 1] = "err"
             THEN prOut[j].msg = prOut[j - 1].msg /\ ~prOut[j].fromReader
             ELSE prOut[j].fromReader /\ prOut[j].msg # prOut[j - 1].msg

\* C24 witness: the first message was answered Error twice and then Ack, and
\* the next read took the second message from the Reader.
C24_Witness ==
    /\ Len(prOut) = 4
    /\ SubSeq(prRes, 1, 3) = <<"err", "err", "ack">>
    /\ prOut[3] = [msg |-> 1, fromReader |-> FALSE]
    /\ prOut[4] = [msg |-> 2, fromReader |-> TRUE]
    /\ rdReads = 2

\* ---------------------------------------------------------------- C26
\* The text r is one well-formed reference: "${!", a non-empty run of name
\* atoms, optionally ":" and a non-empty argument without "}", and "}".
WellFormed(r) ==
    /\ Len(r) >= 5
    /\ SubSeq(r, 1, 3) = <<"$", "{", "!">>
    /\ r[Len(r)] = "}"
    /\ \E m \in 4..(Len(r) - 1) :
          /\ \A j \in 4..m : IsNameAtom(r[j])
          /\ \/ m = Len(r) - 1
             \/ /\ m + 2 <= Len(r) - 1
                /\ r[m + 1] = ":"
                /\ \A j \in (m + 2)..(Len(r) - 1) : r[j] # "}"

\* C26: ContainsFunctionVariables(s) is true exactly when some part of s is a
\* well-formed reference.
C26_Detection ==
    tCalls > 0 =>
        (tContains <=>
            \E i \in 1..Len(tIn), j \in 1..Len(tIn) :
                i <= j /\ WellFormed(SubSeq(tIn, i, j)))

\* C26 witness: the detector found the reference with an argument, ${!echo:echo}.
C26_Witness ==
    /\ tCalls > 0
    /\ tIn = <<"$", "{", "!", "echo", ":", "echo", "}">>
    /\ tContains

\* ---------------------------------------------------------------- C27
\* The well-formed references in the text s, as pairs of positions.
References(s) ==
    {ij \in (1..Len(s)) \X (1..Len(s)) :
        ij[1] <= ij[2] /\ WellFormed(SubSeq(s, ij[1], ij[2]))}

\* The NAME of the well-formed reference r.
NameOf(r) ==
    SubSeq(r, 4, CHOOSE m \in 4..(Len(r) - 1) :
                    /\ \A j \in 4..m : IsNameAtom(r[j])
                    /\ ~IsNameAtom(r[m + 1]))

\* C27: ReplaceFunctionVariables returns its input unchanged when every
\* reference in it has an unrecognised name, and so whenever
\* ContainsFunctionVariables is false of it.
C27_UnknownUntouched ==
    tCalls > 0 =>
        /\ (\A ij \in References(tIn) :
               NameOf(SubSeq(tIn, ij[1], ij[2])) \notin FunctionNames)
           => tOut = tIn
        /\ ~tContains => tOut = tIn

\* C27 witness: the text is a reference to the unknown function echoecho, and
\* came back unchanged.
C27_Witness ==
    /\ tCalls > 0
    /\ tIn = <<"$", "{", "!", "echo", "echo", "}">>
    /\ tContains
    /\ tOut = tIn

\* The malformed reference ${!} came back unchanged.
C27_WitnessMalformed ==
    /\ tCalls > 0
    /\ tIn = <<"$", "{", "!", "}">>
    /\ ~tContains
    /\ tOut = tIn

\* ---------------------------------------------------------------- C25
\* The number a sequence of decimal digits stands for.
RECURSIVE DecimalValue(_)
DecimalValue(ds) ==
    IF ds = <<>> THEN 0
    ELSE 10 * DecimalValue(SubSeq(ds, 1, Len(ds) - 1))
         + (CHOOSE d \in 0..9 : Digits[d + 1] = ds[Len(ds)])

\* The atom a is a decimal digit.
IsDigit(a) == a \in Range(Digits)

\* The keys of the references to count in the text s from position i on, from
\* left to right (in a text made of CountPieces).
RECURSIVE CountKeysFrom(_, _)
CountKeysFrom(s, i) ==
    IF i > Len(s) THEN <<>>
    ELSE IF s[i] = "count"
         THEN <<<<s[i + 2]>>>> \o CountKeysFrom(s, i + 1)
         ELSE CountKeysFrom(s, i + 1)

\* The expansions of count the last call added.
RECURSIVE OutsOf(_)
OutsOf(es) == IF es = <<>> THEN <<>> ELSE Head(es).out \o OutsOf(Tail(es))

\* C25: the n-th expansion of count for a key, counted over all calls, yields
\* the decimal n; within one text the references are expanded from left to
\* right; a call leaves the counters of the keys it does not expand as they
\* were.
C25_Counters ==
    /\ [](\A j \in 1..Len(tExp) :
            /\ tExp[j].out # <<>>
            /\ \A a \in Range(tExp[j].out) : IsDigit(a)
            /\ DecimalValue(tExp[j].out) =
                  Cardinality({i \in 1..j : tExp[i].key = tExp[j].key}))
    /\ [][tCalls' = tCalls + 1 =>
            LET new == SubSeq(tExp', Len(tExp) + 1, Len(tExp'))
            IN  /\ SubSeq(tExp', 1, Len(tExp)) = tExp
                /\ [j \in 1..Len(new) |-> new[j].key] = CountKeysFrom(tIn', 1)
                /\ SelectSeq(tOut', IsDigit) = OutsOf(new)
                /\ \A p \in tCounters :
                      p[1] \notin {e.key : e \in Range(new)} => p \in tCounters'
          ]_vars

\* C25 witness: the sequence of the test: after foo and bar were expanded once
\* each, a text with two references to foo gives 2 and 3.
C25_Witness ==
    /\ tCalls = 3
    /\ tIn = CountRef("foo") \o CountRef("foo")
    /\ tOut = <<"2", "3">>
    /\ [j \in 1..Len(tExp) |-> tExp[j].key]
          = << <<"foo">>, <<"bar">>, <<"foo">>, <<"foo">> >>
    /\ tCounters = {<< <<"foo">>, 3 >>, << <<"bar">>, 1 >>}

\* ---------------------------------------------------------------- C28
\* The section san holds the type of conf, its processors' types and, of the
\* per-type subrecords, the one the type names and no other.
OnlySelected(san, conf) ==
    /\ san.type = conf.type
    /\ san.sections = {q \in conf.sections : q[1] = conf.type}
    /\ Len(san.processors) = Len(conf.processors)
    /\ \A i \in 1..Len(san.processors) :
          /\ san.processors[i].type = conf.processors[i].type
          /\ \A q \in san.processors[i].sections :
                q[1] = conf.processors[i].type /\ q \in conf.processors[i].sections

\* C28: Sanitised returns a nil result together with an error, or else a
\* configuration that keeps the http section and, of input and of output,
\* what is relevant to the selected type; sanitising the sanitised
\* configuration gives the sanitised configuration.
C28_Sanitised ==
    /\ cCalls >= 1 /\ cRet # NoConfRet =>
          IF cRet.err # nil
             THEN cRet.res = NilResult /\ cRet.err \in SanitiseErrs
             ELSE /\ cRet.res.http = cConf.http
                  /\ OnlySelected(cRet.res.input, cConf.input)
                  /\ OnlySelected(cRet.res.output, cConf.output)
    /\ cRet2 # NoConfRet =>
          IF cRet2.err # nil
             THEN cRet2.res = NilResult
             ELSE cRet2.res = cRet.res

\* C28 witness: a configuration with custom subrecords for the types that are
\* not selected and a processor was sanitised twice, with the same result.
C28_Witness ==
    /\ cConf.input.type = "amazon_sqs"
    /\ <<"nanomsg", "custom">> \in cConf.input.sections
    /\ cConf.input.processors # <<>>
    /\ cConf.output.type = "nanomsg"
    /\ <<"amazon_sqs", "custom">> \in cConf.output.sections
    /\ cRet.err = nil
    /\ cRet2.err = nil
    /\ cRet2.res = cRet.res
    /\ LoadConfig(cRet.res) # cConf

\* The input section failed to sanitise: the error and a nil result.
C28_WitnessError ==
    /\ cCalls = 1
    /\ cRet.err \in SanitiseErrs
    /\ cRet.res = NilResult

\* ---------------------------------------------------------------- C31
\* The loop has left its for statement: it runs the deferred function or is done.
LoopExited == pc \in {"defer", "defer2", "done"}

\* C31: running is 0 from the compare-and-swap of the CloseAsync call that wins
\* it, hence whenever a CloseAsync call has returned, and stays 0; from then on
\* the loop receives at most one more transaction; a loop that reads running = 0
\* in its for statement leaves the loop, and a loop that left never receives or
\* iterates again.
C31_BoundedAfterClose ==
    /\ [](running = 0 => /\ recvAtClose >= 0
                         /\ Len(received) <= recvAtClose + 1)
    /\ [](closeChan > 0 => running = 0)
    /\ [][running = 0 => running' = 0]_vars
    /\ [][(pc = "check" /\ running = 0 /\ pc' # pc) => pc' = "defer"]_vars
    /\ [][LoopExited => (LoopExited' /\ received' = received)]_vars

\* C31 witness: a CloseAsync call has returned, and the loop, which was in its
\* first select, received one more transaction after running was set to 0, and has
\* exited while the source holds another transaction.
C31_Witness ==
    /\ closeChan = 1
    /\ ~closing
    /\ recvAtClose >= 0
    /\ Len(received) = recvAtClose + 1
    /\ pc = "done"
    /\ offer # NoTx

\* ---------------------------------------------------------------- C32
\* C32: closeChan is closed at most once, whatever the number of CloseAsync
\* calls; closedChan is closed exactly when the loop that was started finishes
\* its deferred function, once, and never without a loop; once the loop has
\* exited, a CloseAsync call that starts then changes nothing.
C32_CloseOnce ==
    /\ [](closeChan <= 1)
    /\ [](closedChan = IF pc = "done" THEN 1 ELSE 0)
    /\ [][closeChan' # closeChan => (closing /\ closeChan = 0 /\ ~closing')]_vars
    /\ [][closedChan' # closedChan => (pc = "defer2" /\ pc' = "done")]_vars
    /\ [][(pc = "done" /\ ~closing) =>
            (running' = running /\ closeChan' = closeChan
             /\ closedChan' = closedChan /\ closing' = closing)]_vars

\* C32 witness: the loop exited on its own, the upstream channel being closed,
\* while a CloseAsync call won the compare-and-swap; both channels are closed,
\* each once.
C32_Witness ==
    /\ ~upOpen
    /\ received = <<>>
    /\ pc = "done"
    /\ closeChan = 1
    /\ closedChan = 1
    /\ ~closing

\* The loop exited on its own and no CloseAsync call closed closeChan, then or
\* later.
C32_WitnessNoop ==
    /\ ~upOpen
    /\ pc = "done"
    /\ running = 0
    /\ closeChan = 0
    /\ ~closing
    /\ closedChan = 1
====
